---- MODULE Spec2Model ----
(***************************************************************************)
(* The natural-language command interpreter of the case-management         *)
(* application (utils/nlpProcessor: parseVoiceCommand and its helpers).    *)
(*                                                                         *)
(* A string is a sequence of one-character strings, so that substring      *)
(* tests, regular-expression matches, lowercasing, trimming, splitting and *)
(* joining are computed character by character as the code computes them.  *)
(* An instant is a number of ticks of the clock, DayLength ticks to the     *)
(* day; new Date() reads the variable now.                                 *)
(* confidence is kept in tenths (7 stands for 0.7): the doubles the scorer *)
(* adds (0.3, min(0.2*n, 0.4), 0.2, 0.1, in that order) give sums whose    *)
(* comparisons with 0.7 and with 1.0 agree with the exact tenths.          *)
(***************************************************************************)
EXTENDS Integers, Sequences, FiniteSets, TLC

VARIABLES
  CRIME_TYPES,        \* the crime-type vocabulary: a module-level array
  TEMPORAL_KEYWORDS,  \* the temporal-keyword table: a module-level object
  text,      \* the argument of the calls under observation (a raw utterance)
  now,       \* the wall clock, in ticks
  parsed,    \* the ParsedCommand returned by the latest call (NotCalled before)
  parsedAt,  \* the readings of the clock by the latest call
  first,     \* the ParsedCommand returned by the first call on text
  firstAt,   \* the readings of the clock by that first call
  summary,   \* the string formatCommandSummary returned (NoSummary before)
  calls,     \* of each caller: where its call stands, and the locals of the call
  match,     \* the match-case function: its request, its locals, its response
  entry,     \* manual case entry: the form, the loading flag, the submission
  clarifier, \* the scoring and the clarifier called on an intent and entities
  center,    \* the voice command center: its state and its reports
  route      \* a ProtectedRoute: its props, its state, its effect, what it shows

tables == <<CRIME_TYPES, TEMPORAL_KEYWORDS>>

\* the command interpreter and its callers
interpreter == <<tables, text, now, parsed, parsedAt, first, firstAt, summary, calls>>

\* what neither the function nor the form touches
elsewhere == <<clarifier, center, route>>

\* the rest of the application
outside == <<match, entry, elsewhere>>

vars == <<CRIME_TYPES, TEMPORAL_KEYWORDS, text, now, parsed, parsedAt, first, firstAt,
          summary, calls, match, entry, clarifier, center, route>>

----------------------------------------------------------------------------
(* Characters and strings *)

Lower == {"a","b","c","d","e","f","g","h","i","j","k","l","m","n","o","p","q","r","s","t","u","v","w","x","y","z"}

Digit == {"0","1","2","3","4","5","6","7","8","9"}

\* the whitespace of \s and of trim() that the inputs use
Space == {" ", "\t"}

UpperCase == <<"A","B","C","D","E","F","G","H","I","J","K","L","M","N","O","P","Q","R","S","T","U","V","W","X","Y","Z">>

LowerCase == <<"a","b","c","d","e","f","g","h","i","j","k","l","m","n","o","p","q","r","s","t","u","v","w","x","y","z">>

Min(S) == CHOOSE m \in S : \A n \in S : m <= n

Max(S) == CHOOSE m \in S : \A n \in S : n <= m

\* the lowercase letter of each uppercase letter
lowerOf ==
  [c \in {UpperCase[u] : u \in 1..Len(UpperCase)} |->
     LowerCase[CHOOSE u \in 1..Len(UpperCase) : UpperCase[u] = c]]

\* String.prototype.toLowerCase
toLowerCase(s) ==
  [i \in 1..Len(s) |-> IF s[i] \in DOMAIN lowerOf THEN lowerOf[s[i]] ELSE s[i]]

\* String.prototype.trim
trim(s) ==
  IF \A i \in 1..Len(s) : s[i] \in Space THEN <<>>
  ELSE SubSeq(s,
              CHOOSE i \in 1..Len(s) : s[i] \notin Space /\ \A j \in 1..(i - 1) : s[j] \in Space,
              CHOOSE i \in 1..Len(s) : s[i] \notin Space /\ \A j \in (i + 1)..Len(s) : s[j] \in Space)

\* w occurs in s at position i
StartsAt(s, i, w) ==
  /\ i >= 1
  /\ i + Len(w) - 1 <= Len(s)
  /\ \A k \in 1..Len(w) : s[i + k - 1] = w[k]

\* String.prototype.includes
includes(s, w) ==
  \E i \in 1..(Len(s) - Len(w) + 1) : \A k \in 1..Len(w) : s[i + k - 1] = w[k]

\* s.split(/\s+/): the maximal runs of non-whitespace, with an empty string
\* in front when s starts with whitespace and behind when it ends with it;
\* the empty string splits into one empty string.
RECURSIVE TokensFrom(_, _)
TokensFrom(s, i) ==
  IF i > Len(s) THEN <<>>
  ELSE IF s[i] \in Space THEN TokensFrom(s, i + 1)
  ELSE LET h == CHOOSE e \in i..Len(s) :
                  /\ e = Len(s) \/ s[e + 1] \in Space
                  /\ \A x \in i..e : s[x] \notin Space
       IN  <<SubSeq(s, i, h)>> \o TokensFrom(s, h + 1)

split(s) ==
  IF s = <<>> THEN << <<>> >>
  ELSE (IF s[1] \in Space THEN << <<>> >> ELSE <<>>)
       \o TokensFrom(s, 1)
       \o (IF s[Len(s)] \in Space THEN << <<>> >> ELSE <<>>)

\* Array.prototype.join
RECURSIVE join(_, _)
join(list, sep) ==
  IF Len(list) = 0 THEN <<>>
  ELSE IF Len(list) = 1 THEN list[1]
  ELSE join(SubSeq(list, 1, Len(list) - 1), sep) \o sep \o list[Len(list)]

\* [...new Set(words)]: duplicates removed, order of first occurrence kept
RECURSIVE Unique(_)
Unique(ws) ==
  IF ws = <<>> THEN <<>>
  ELSE LET r == Unique(SubSeq(ws, 1, Len(ws) - 1))
           l == ws[Len(ws)]
       IN  IF \E i \in 1..Len(r) : r[i] = l THEN r ELSE Append(r, l)

----------------------------------------------------------------------------
(* Regular expressions: the backtracking order of the engine is kept.      *)
(* A match is tried at the start positions from left to right; a greedy    *)
(* quantifier tries the longest run first, a lazy one the shortest.        *)

NoMatch == [found |-> FALSE, group |-> <<>>]

\* the positions h such that s[g..h] is a non-empty run of characters of cls
RunEnds(s, g, cls) == {h \in g..Len(s) : \A x \in g..h : s[x] \in cls}

\* the number of whitespace characters at position e and after it
SpaceRun(s, e) == Cardinality(RunEnds(s, e, Space))

\* ([cls]+) at position g
GreedyGroupAt(s, g, cls) ==
  IF RunEnds(s, g, cls) = {} THEN NoMatch
  ELSE [found |-> TRUE, group |-> SubSeq(s, g, Max(RunEnds(s, g, cls)))]

\* \s+([cls]+) at position e
GreedyGroupAfter(s, e, cls) ==
  LET J == {j \in 1..SpaceRun(s, e) : RunEnds(s, e + j, cls) # {}}
  IN  IF J = {} THEN NoMatch ELSE GreedyGroupAt(s, e + Max(J), cls)

\* \s+([cls]+?)(?:\s|$) at position e
LazyGroupAfter(s, e, cls) ==
  LET Ends(g) == {h \in RunEnds(s, g, cls) : h = Len(s) \/ s[h+1] \in Space}
      J == {j \in 1..SpaceRun(s, e) : Ends(e + j) # {}}
  IN  IF J = {} THEN NoMatch
      ELSE [found |-> TRUE, group |-> SubSeq(s, e + Max(J), Min(Ends(e + Max(J))))]

\* String.prototype.match without the g flag: of the attempts at the start
\* positions 1, 2, ..., the leftmost one that found a match
Leftmost(attempts) ==
  LET I == {i \in DOMAIN attempts : attempts[i].found}
  IN  IF I = {} THEN NoMatch ELSE attempts[Min(I)]

LocationPrepositions == << <<"i","n">>, <<"n","e","a","r">>, <<"a","t">>, <<"a","r","o","u","n","d">> >>

LocationChars == Lower \cup Digit \cup Space

\* /(?:in|near|at|around)\s+([a-z0-9\s]+?)(?:\s|$)/i at position i
PrepositionAt(s, i) ==
  LET Try(a) == IF StartsAt(s, i, LocationPrepositions[a])
                  THEN LazyGroupAfter(s, i + Len(LocationPrepositions[a]), LocationChars)
                  ELSE NoMatch
      A == {a \in 1..Len(LocationPrepositions) : Try(a).found}
  IN  IF A = {} THEN NoMatch ELSE Try(Min(A))

\* /sector\s+(\d+)/i at position i
SectorAt(s, i) ==
  IF StartsAt(s, i, <<"s","e","c","t","o","r">>) THEN GreedyGroupAfter(s, i + Len(<<"s","e","c","t","o","r">>), Digit) ELSE NoMatch

\* /district\s+([a-z0-9\s]+)/i at position i
DistrictAt(s, i) ==
  IF StartsAt(s, i, <<"d","i","s","t","r","i","c","t">>)
    THEN GreedyGroupAfter(s, i + Len(<<"d","i","s","t","r","i","c","t">>), LocationChars)
    ELSE NoMatch

SuspectChars == Lower \cup Space

\* /suspect(?:\s+named)?\s+([a-z\s]+?)(?:\s|$)/i at position i
SuspectAt(s, i) ==
  IF ~StartsAt(s, i, <<"s","u","s","p","e","c","t">>) THEN NoMatch
  ELSE
    LET e == i + Len(<<"s","u","s","p","e","c","t">>)
        \* the optional group is taken first: \s+ (longest first), then "named"
        Named(j) == IF StartsAt(s, e + j, <<"n","a","m","e","d">>)
                      THEN LazyGroupAfter(s, e + j + Len(<<"n","a","m","e","d">>), SuspectChars)
                      ELSE NoMatch
        J == {j \in 1..SpaceRun(s, e) : Named(j).found}
    IN  IF J # {} THEN Named(Max(J)) ELSE LazyGroupAfter(s, e, SuspectChars)

CaseIdChars == Lower \cup Digit \cup {"-"}

\* the pattern without its optional "id": /case\s+([a-z0-9-]+)/i
CaseIdAt_NoOptionalId(s, i) ==
  IF StartsAt(s, i, <<"c","a","s","e">>) THEN GreedyGroupAfter(s, i + Len(<<"c","a","s","e">>), CaseIdChars) ELSE NoMatch

\* /case\s+(?:id\s+)?([a-z0-9-]+)/i at position i
CaseIdAt(s, i) ==
  IF ~StartsAt(s, i, <<"c","a","s","e">>) THEN NoMatch
  ELSE
    LET e == i + Len(<<"c","a","s","e">>)
        \* after j whitespace characters: "id", whitespace and the run, else the run
        Try(j) == LET withId == IF StartsAt(s, e + j, <<"i","d">>)
                                  THEN GreedyGroupAfter(s, e + j + Len(<<"i","d">>), CaseIdChars)
                                  ELSE NoMatch
                  IN  IF withId.found THEN withId ELSE GreedyGroupAt(s, e + j, CaseIdChars)
        J == {j \in 1..SpaceRun(s, e) : Try(j).found}
    IN  IF J = {} THEN NoMatch ELSE Try(Max(J))

\* /(\d{1,2}\/\d{1,2}\/\d{4})/ at position i
DateAt(s, i) ==
  LET Digits(p, n) == p + n - 1 <= Len(s) /\ \A x \in p..(p + n - 1) : s[x] \in Digit
      Slash(p) == p <= Len(s) /\ s[p] = "/"
      \* <<a, b>>: the lengths of the month and day runs, longest first
      Fits(a, b) == /\ Digits(i, a) /\ Slash(i + a)
                    /\ Digits(i + a + 1, b) /\ Slash(i + a + 1 + b)
                    /\ Digits(i + a + b + 2, 4)
      Order == << <<2, 2>>, <<2, 1>>, <<1, 2>>, <<1, 1>> >>
      K == {k \in 1..Len(Order) : Fits(Order[k][1], Order[k][2])}
  IN  IF K = {} THEN NoMatch
      ELSE [found |-> TRUE,
            group |-> SubSeq(s, i, i + Order[Min(K)][1] + Order[Min(K)][2] + 5)]

----------------------------------------------------------------------------
(* The static tables *)

\* the array CRIME_TYPES is initialised with
CrimeTypeVocabulary ==
  << <<"a","r","m","e","d"," ","r","o","b","b","e","r","y">>, <<"r","o","b","b","e","r","y">>, <<"b","u","r","g","l","a","r","y">>, <<"t","h","e","f","t">>, <<"a","s","s","a","u","l","t">>, <<"h","o","m","i","c","i","d","e">>, <<"m","u","r","d","e","r">>,
     <<"f","r","a","u","d">>, <<"a","r","s","o","n">>, <<"k","i","d","n","a","p","p","i","n","g">>, <<"v","a","n","d","a","l","i","s","m">>, <<"d","r","u","g"," ","t","r","a","f","f","i","c","k","i","n","g">>, <<"w","e","a","p","o","n","s"," ","v","i","o","l","a","t","i","o","n">> >>

\* the object TEMPORAL_KEYWORDS is initialised with, in insertion order, as
\* Object.entries and Object.keys enumerate it
TemporalKeywordTable ==
  << [keyword |-> <<"t","o","d","a","y">>, days |-> 0],
     [keyword |-> <<"y","e","s","t","e","r","d","a","y">>, days |-> 1],
     [keyword |-> <<"t","h","i","s"," ","w","e","e","k">>, days |-> 7],
     [keyword |-> <<"l","a","s","t"," ","w","e","e","k">>, days |-> 14, offset |-> 7],
     [keyword |-> <<"t","h","i","s"," ","m","o","n","t","h">>, days |-> 30],
     [keyword |-> <<"l","a","s","t"," ","m","o","n","t","h">>, days |-> 60, offset |-> 30],
     [keyword |-> <<"t","h","i","s"," ","y","e","a","r">>, days |-> 365] >>

stopWords ==
  { <<"t","h","e">>, <<"a">>, <<"a","n">>, <<"a","n","d">>, <<"o","r">>, <<"b","u","t">>, <<"i","n">>, <<"o","n">>, <<"a","t">>, <<"t","o">>, <<"f","o","r">>, <<"o","f">>, <<"w","i","t","h">>, <<"b","y">>,
    <<"f","r","o","m">>, <<"s","h","o","w">>, <<"f","i","n","d">>, <<"s","e","a","r","c","h">>, <<"g","e","t">>, <<"m","e">>, <<"a","l","l">> }

CommandIntent ==
  {"search_cases", "filter_cases", "temporal_query", "location_query", "suspect_query",
   "crime_type_query", "unknown"}

----------------------------------------------------------------------------
(* The interpreter *)

containsCrimeType(s) == \E k \in 1..Len(CRIME_TYPES) : includes(s, CRIME_TYPES[k])

containsLocation(s) ==
  \/ includes(s, <<"i","n"," ">>)
  \/ includes(s, <<"n","e","a","r"," ">>)
  \/ includes(s, <<"a","t"," ">>)
  \/ includes(s, <<"a","r","o","u","n","d"," ">>)
  \/ includes(s, <<"s","e","c","t","o","r">>)
  \/ includes(s, <<"d","i","s","t","r","i","c","t">>)

\* the classifier tests a list of its own, not the table
containsTimeReference_OwnList(s) ==
  \E keyword \in {<<"t","o","d","a","y">>, <<"y","e","s","t","e","r","d","a","y">>} : includes(s, keyword)

containsTimeReference(s) ==
  \E k \in 1..Len(TEMPORAL_KEYWORDS) : includes(s, TEMPORAL_KEYWORDS[k].keyword)

\* with a search verb the time reference is tested before the location
determineIntent_TimeBeforeLocation(s) ==
  IF includes(s, <<"s","h","o","w">>) \/ includes(s, <<"f","i","n","d">>) \/ includes(s, <<"s","e","a","r","c","h">>) \/ includes(s, <<"g","e","t">>)
    THEN IF containsCrimeType(s) THEN "crime_type_query"
         ELSE IF containsTimeReference(s) THEN "temporal_query"
         ELSE IF containsLocation(s) THEN "location_query"
         ELSE "search_cases"
  ELSE IF includes(s, <<"f","i","l","t","e","r">>) \/ includes(s, <<"n","a","r","r","o","w">>) \/ includes(s, <<"m","a","t","c","h","i","n","g">>)
    THEN "filter_cases"
  ELSE IF containsTimeReference(s) THEN "temporal_query"
  ELSE IF containsLocation(s) THEN "location_query"
  ELSE IF includes(s, <<"s","u","s","p","e","c","t">>) \/ includes(s, <<"p","e","r","p","e","t","r","a","t","o","r">>) THEN "suspect_query"
  ELSE "unknown"

\* the suspect rule returns a value that is no CommandIntent
determineIntent_Typo(s) ==
  IF includes(s, <<"s","h","o","w">>) \/ includes(s, <<"f","i","n","d">>) \/ includes(s, <<"s","e","a","r","c","h">>) \/ includes(s, <<"g","e","t">>)
    THEN IF containsCrimeType(s) THEN "crime_type_query"
         ELSE IF containsLocation(s) THEN "location_query"
         ELSE IF containsTimeReference(s) THEN "temporal_query"
         ELSE "search_cases"
  ELSE IF includes(s, <<"f","i","l","t","e","r">>) \/ includes(s, <<"n","a","r","r","o","w">>) \/ includes(s, <<"m","a","t","c","h","i","n","g">>)
    THEN "filter_cases"
  ELSE IF containsTimeReference(s) THEN "temporal_query"
  ELSE IF containsLocation(s) THEN "location_query"
  ELSE IF includes(s, <<"s","u","s","p","e","c","t">>) \/ includes(s, <<"p","e","r","p","e","t","r","a","t","o","r">>) THEN "suspect"
  ELSE "unknown"

determineIntent(s) ==
  IF includes(s, <<"s","h","o","w">>) \/ includes(s, <<"f","i","n","d">>) \/ includes(s, <<"s","e","a","r","c","h">>) \/ includes(s, <<"g","e","t">>)
    THEN IF containsCrimeType(s) THEN "crime_type_query"
         ELSE IF containsLocation(s) THEN "location_query"
         ELSE IF containsTimeReference(s) THEN "temporal_query"
         ELSE "search_cases"
  ELSE IF includes(s, <<"f","i","l","t","e","r">>) \/ includes(s, <<"n","a","r","r","o","w">>) \/ includes(s, <<"m","a","t","c","h","i","n","g">>)
    THEN "filter_cases"
  ELSE IF containsTimeReference(s) THEN "temporal_query"
  ELSE IF containsLocation(s) THEN "location_query"
  ELSE IF includes(s, <<"s","u","s","p","e","c","t">>) \/ includes(s, <<"p","e","r","p","e","t","r","a","t","o","r">>) THEN "suspect_query"
  ELSE "unknown"

\* the ticks of the clock in a day
DayLength == 2

\* the value of a run of decimal digits
RECURSIVE ToNumber(_)
ToNumber(ds) ==
  IF ds = <<>> THEN 0
  ELSE 10 * ToNumber(SubSeq(ds, 1, Len(ds) - 1))
       + (CHOOSE v \in 0..9 : <<"0","1","2","3","4","5","6","7","8","9">>[v + 1] = ds[Len(ds)])

\* new Date("M/D/YYYY"): the fields as written; a month over 12 or a day over
\* 31 gives an Invalid Date (a day beyond the month's last is not rolled over
\* here)
newDate(m) ==
  LET P == {i \in 1..Len(m) : m[i] = "/"}
      month == ToNumber(SubSeq(m, 1, Min(P) - 1))
      day == ToNumber(SubSeq(m, Min(P) + 1, Max(P) - 1))
      year == ToNumber(SubSeq(m, Max(P) + 1, Len(m)))
  IN  [valid |-> month \in 1..12 /\ day \in 1..31, year |-> year, month |-> month, day |-> day]

\* the literal date is looked for before the relative phrases
extractTimeRange_DateFirst(s, clock) ==
  LET K == {k \in 1..Len(TEMPORAL_KEYWORDS) : includes(s, TEMPORAL_KEYWORDS[k].keyword)}
      value == TEMPORAL_KEYWORDS[Min(K)]
      dateMatch == Leftmost([i \in 1..Len(s) |-> DateAt(s, i)])
  IN  IF dateMatch.found
        THEN << [start |-> newDate(dateMatch.group), end |-> newDate(dateMatch.group)] >>
      ELSE IF K # {}
        THEN << [start |-> clock[2] - value.days * DayLength,
                 end |-> IF "offset" \in DOMAIN value /\ value.offset # 0
                           THEN clock[1] - value.offset * DayLength ELSE clock[1],
                 relative |-> value.keyword] >>
      ELSE <<>>

\* the keyword that stands first in the text is taken, not the first of the
\* table
extractTimeRange_FirstInText(s, clock) ==
  LET K == {k \in 1..Len(TEMPORAL_KEYWORDS) : includes(s, TEMPORAL_KEYWORDS[k].keyword)}
      At(k) == Min({i \in 1..Len(s) : StartsAt(s, i, TEMPORAL_KEYWORDS[k].keyword)})
      value == TEMPORAL_KEYWORDS[CHOOSE k \in K : \A j \in K : At(k) <= At(j)]
      dateMatch == Leftmost([i \in 1..Len(s) |-> DateAt(s, i)])
  IN  IF K # {}
        THEN << [start |-> clock[2] - value.days * DayLength,
                 end |-> IF "offset" \in DOMAIN value /\ value.offset # 0
                           THEN clock[1] - value.offset * DayLength ELSE clock[1],
                 relative |-> value.keyword] >>
      ELSE IF dateMatch.found
        THEN << [start |-> newDate(dateMatch.group), end |-> newDate(dateMatch.group)] >>
      ELSE <<>>

\* start.setDate(value.days): the start no longer counts back from now
extractTimeRange_SetDateAbsolute(s, clock) ==
  LET K == {k \in 1..Len(TEMPORAL_KEYWORDS) : includes(s, TEMPORAL_KEYWORDS[k].keyword)}
      value == TEMPORAL_KEYWORDS[Min(K)]
      dateMatch == Leftmost([i \in 1..Len(s) |-> DateAt(s, i)])
  IN  IF K # {}
        THEN << [start |-> value.days * DayLength,
                 end |-> IF "offset" \in DOMAIN value /\ value.offset # 0
                           THEN clock[1] - value.offset * DayLength ELSE clock[1],
                 relative |-> value.keyword] >>
      ELSE IF dateMatch.found
        THEN << [start |-> newDate(dateMatch.group), end |-> newDate(dateMatch.group)] >>
      ELSE <<>>

\* the result is a sequence: empty for undefined, else the one TimeRange;
\* clock holds what the two new Date() return: clock[1] to end, clock[2] to
\* start
extractTimeRange(s, clock) ==
  LET K == {k \in 1..Len(TEMPORAL_KEYWORDS) : includes(s, TEMPORAL_KEYWORDS[k].keyword)}
      value == TEMPORAL_KEYWORDS[Min(K)]
      dateMatch == Leftmost([i \in 1..Len(s) |-> DateAt(s, i)])
  IN  IF K # {}
        THEN << [start |-> clock[2] - value.days * DayLength,
                 end |-> IF "offset" \in DOMAIN value /\ value.offset # 0
                           THEN clock[1] - value.offset * DayLength ELSE clock[1],
                 relative |-> value.keyword] >>
      ELSE IF dateMatch.found
        THEN << [start |-> newDate(dateMatch.group), end |-> newDate(dateMatch.group)] >>
      ELSE <<>>

\* the filter without its test of the length
extractKeywords_AnyLength(s) ==
  LET words == split(s)
      stripped == [i \in 1..Len(words) |->
                     SelectSeq(toLowerCase(words[i]), LAMBDA c : c \in Lower \cup Digit)]
      kept == SelectSeq(stripped, LAMBDA w : w \notin stopWords)
  IN  Unique(kept)

\* only words of more than 4 characters are kept
extractKeywords_LongWords(s) ==
  LET words == split(s)
      stripped == [i \in 1..Len(words) |->
                     SelectSeq(toLowerCase(words[i]), LAMBDA c : c \in Lower \cup Digit)]
      kept == SelectSeq(stripped, LAMBDA w : Len(w) > 4 /\ w \notin stopWords)
  IN  Unique(kept)

\* the words are not made unique
extractKeywords_Duplicates(s) ==
  LET words == split(s)
      stripped == [i \in 1..Len(words) |->
                     SelectSeq(toLowerCase(words[i]), LAMBDA c : c \in Lower \cup Digit)]
  IN  SelectSeq(stripped, LAMBDA w : Len(w) > 2 /\ w \notin stopWords)

extractKeywords(s) ==
  LET words == split(s)
      stripped == [i \in 1..Len(words) |->
                     SelectSeq(toLowerCase(words[i]), LAMBDA c : c \in Lower \cup Digit)]
      kept == SelectSeq(stripped, LAMBDA w : Len(w) > 2 /\ w \notin stopWords)
  IN  Unique(kept)

\* a field of an object: present with its value, or absent
Field(name, present, value) == IF present THEN name :> value ELSE <<>>

\* the sector pattern is tried before the preposition pattern
extractEntities_SectorFirst(s, clock) ==
  LET crimeTypes == SelectSeq(CRIME_TYPES, LAMBDA type : includes(s, type))
      byPreposition == Leftmost([i \in 1..Len(s) |-> PrepositionAt(s, i)])
      bySector == Leftmost([i \in 1..Len(s) |-> SectorAt(s, i)])
      byDistrict == Leftmost([i \in 1..Len(s) |-> DistrictAt(s, i)])
      locationMatch == IF bySector.found THEN bySector
                       ELSE IF byPreposition.found THEN byPreposition
                       ELSE byDistrict
      timeRange == extractTimeRange(s, clock)
      suspectMatch == Leftmost([i \in 1..Len(s) |-> SuspectAt(s, i)])
      caseIdMatch == Leftmost([i \in 1..Len(s) |-> CaseIdAt(s, i)])
      keywords == extractKeywords(s)
  IN  Field("crimeType", Len(crimeTypes) > 0, crimeTypes)
      @@ Field("location", locationMatch.found, trim(locationMatch.group))
      @@ Field("timeRange", timeRange # <<>>, IF timeRange # <<>> THEN timeRange[1] ELSE <<>>)
      @@ Field("suspect", suspectMatch.found, trim(suspectMatch.group))
      @@ Field("caseId", caseIdMatch.found, caseIdMatch.group)
      @@ Field("keywords", Len(keywords) > 0, keywords)

\* a crime type that is part of another one found is left out
extractEntities_Subsumed(s, clock) ==
  LET found == SelectSeq(CRIME_TYPES, LAMBDA type : includes(s, type))
      crimeTypes == SelectSeq(found, LAMBDA type :
                      ~\E k \in 1..Len(found) : found[k] # type /\ includes(found[k], type))
      byPreposition == Leftmost([i \in 1..Len(s) |-> PrepositionAt(s, i)])
      bySector == Leftmost([i \in 1..Len(s) |-> SectorAt(s, i)])
      byDistrict == Leftmost([i \in 1..Len(s) |-> DistrictAt(s, i)])
      locationMatch == IF byPreposition.found THEN byPreposition
                       ELSE IF bySector.found THEN bySector
                       ELSE byDistrict
      timeRange == extractTimeRange(s, clock)
      suspectMatch == Leftmost([i \in 1..Len(s) |-> SuspectAt(s, i)])
      caseIdMatch == Leftmost([i \in 1..Len(s) |-> CaseIdAt(s, i)])
      keywords == extractKeywords(s)
  IN  Field("crimeType", Len(crimeTypes) > 0, crimeTypes)
      @@ Field("location", locationMatch.found, trim(locationMatch.group))
      @@ Field("timeRange", timeRange # <<>>, IF timeRange # <<>> THEN timeRange[1] ELSE <<>>)
      @@ Field("suspect", suspectMatch.found, trim(suspectMatch.group))
      @@ Field("caseId", caseIdMatch.found, caseIdMatch.group)
      @@ Field("keywords", Len(keywords) > 0, keywords)

\* the entities object is a function whose domain is the set of its keys
extractEntities(s, clock) ==
  LET crimeTypes == SelectSeq(CRIME_TYPES, LAMBDA type : includes(s, type))
      byPreposition == Leftmost([i \in 1..Len(s) |-> PrepositionAt(s, i)])
      bySector == Leftmost([i \in 1..Len(s) |-> SectorAt(s, i)])
      byDistrict == Leftmost([i \in 1..Len(s) |-> DistrictAt(s, i)])
      locationMatch == IF byPreposition.found THEN byPreposition
                       ELSE IF bySector.found THEN bySector
                       ELSE byDistrict
      timeRange == extractTimeRange(s, clock)
      suspectMatch == Leftmost([i \in 1..Len(s) |-> SuspectAt(s, i)])
      caseIdMatch == Leftmost([i \in 1..Len(s) |-> CaseIdAt(s, i)])
      keywords == extractKeywords(s)
  IN  Field("crimeType", Len(crimeTypes) > 0, crimeTypes)
      @@ Field("location", locationMatch.found, trim(locationMatch.group))
      @@ Field("timeRange", timeRange # <<>>, IF timeRange # <<>> THEN timeRange[1] ELSE <<>>)
      @@ Field("suspect", suspectMatch.found, trim(suspectMatch.group))
      @@ Field("caseId", caseIdMatch.found, caseIdMatch.group)
      @@ Field("keywords", Len(keywords) > 0, keywords)

\* the score without Math.min: neither the entity share nor the sum is capped
calculateConfidence_Uncapped(intent, entities, s) ==
  LET entityCount == Cardinality(DOMAIN entities)
      wordCount == Len(split(s))
  IN  (IF intent # "unknown" THEN 3 ELSE 0)
      + entityCount * 2
      + (IF wordCount >= 4 THEN 2 ELSE 0)
      + (IF wordCount >= 8 THEN 1 ELSE 0)

\* the share of the entities is capped at one field
calculateConfidence_OneField(intent, entities, s) ==
  LET entityCount == Cardinality(DOMAIN entities)
      wordCount == Len(split(s))
      score == (IF intent # "unknown" THEN 3 ELSE 0)
               + (IF entityCount * 2 < 2 THEN entityCount * 2 ELSE 2)
               + (IF wordCount >= 4 THEN 2 ELSE 0)
               + (IF wordCount >= 8 THEN 1 ELSE 0)
  IN  IF score < 10 THEN score ELSE 10

\* the two bonuses for the length are tiers: the second replaces the first
calculateConfidence_Tiers(intent, entities, s) ==
  LET entityCount == Cardinality(DOMAIN entities)
      wordCount == Len(split(s))
      score == (IF intent # "unknown" THEN 3 ELSE 0)
               + (IF entityCount * 2 < 4 THEN entityCount * 2 ELSE 4)
               + (IF wordCount >= 8 THEN 1 ELSE IF wordCount >= 4 THEN 2 ELSE 0)
  IN  IF score < 10 THEN score ELSE 10

\* in tenths
calculateConfidence(intent, entities, s) ==
  LET entityCount == Cardinality(DOMAIN entities)
      wordCount == Len(split(s))
      score == (IF intent # "unknown" THEN 3 ELSE 0)
               + (IF entityCount * 2 < 4 THEN entityCount * 2 ELSE 4)
               + (IF wordCount >= 4 THEN 2 ELSE 0)
               + (IF wordCount >= 8 THEN 1 ELSE 0)
  IN  IF score < 10 THEN score ELSE 10

\* a question is its template and, for the crime-type question, the list in it
Question(template, detail) == [template |-> template, detail |-> detail]

Undefined == Question("undefined", <<>>)

\* !entities.field for a string field: it is absent (undefined) or the empty
\* string; an array or an object that is present is never falsy
NoString(entities, field) == field \notin DOMAIN entities \/ entities[field] = <<>>

\* the question for the location is tried before the one for the time period
generateClarificationQuestion_LocationFirst(intent, entities, s) ==
  IF intent = "unknown" THEN Question("rephrase", <<>>)
  ELSE IF /\ "crimeType" \notin DOMAIN entities
          /\ NoString(entities, "location")
          /\ "timeRange" \notin DOMAIN entities
    THEN Question("specify_details", <<>>)
  ELSE IF "crimeType" \in DOMAIN entities /\ Len(entities.crimeType) > 1
    THEN Question("multiple_crime_types", join(entities.crimeType, <<","," ">>))
  ELSE IF NoString(entities, "location") THEN Question("location", <<>>)
  ELSE IF "timeRange" \notin DOMAIN entities THEN Question("time_period", <<>>)
  ELSE Question("fallback", <<>>)

generateClarificationQuestion(intent, entities, s) ==
  IF intent = "unknown" THEN Question("rephrase", <<>>)
  ELSE IF /\ "crimeType" \notin DOMAIN entities
          /\ NoString(entities, "location")
          /\ "timeRange" \notin DOMAIN entities
    THEN Question("specify_details", <<>>)
  ELSE IF "crimeType" \in DOMAIN entities /\ Len(entities.crimeType) > 1
    THEN Question("multiple_crime_types", join(entities.crimeType, <<","," ">>))
  ELSE IF "timeRange" \notin DOMAIN entities THEN Question("time_period", <<>>)
  ELSE IF NoString(entities, "location") THEN Question("location", <<>>)
  ELSE Question("fallback", <<>>)

\* the question is generated whatever the confidence
parseVoiceCommand_AlwaysAsks(raw, clock) ==
  LET normalizedText == trim(toLowerCase(raw))
      intent == determineIntent(normalizedText)
      entities == extractEntities(normalizedText, clock)
      confidence == calculateConfidence(intent, entities, normalizedText)
  IN  [intent |-> intent,
       entities |-> entities,
       confidence |-> confidence,
       rawText |-> raw,
       needsClarification |-> confidence < 7,
       clarificationQuestion |->
         generateClarificationQuestion(intent, entities, normalizedText)]

\* the text is trimmed but not put in lower case
parseVoiceCommand_NoLowerCase(raw, clock) ==
  LET normalizedText == trim(raw)
      intent == determineIntent(normalizedText)
      entities == extractEntities(normalizedText, clock)
      confidence == calculateConfidence(intent, entities, normalizedText)
      needsClarification == confidence < 7
  IN  [intent |-> intent,
       entities |-> entities,
       confidence |-> confidence,
       rawText |-> raw,
       needsClarification |-> needsClarification,
       clarificationQuestion |->
         IF needsClarification
           THEN generateClarificationQuestion(intent, entities, normalizedText)
           ELSE Undefined]

parseVoiceCommand(raw, clock) ==
  LET normalizedText == trim(toLowerCase(raw))
      intent == determineIntent(normalizedText)
      entities == extractEntities(normalizedText, clock)
      confidence == calculateConfidence(intent, entities, normalizedText)
      needsClarification == confidence < 7
  IN  [intent |-> intent,
       entities |-> entities,
       confidence |-> confidence,
       rawText |-> raw,
       needsClarification |-> needsClarification,
       clarificationQuestion |->
         IF needsClarification
           THEN generateClarificationQuestion(intent, entities, normalizedText)
           ELSE Undefined]

\* parsed.entities.timeRange?.relative is truthy
HasRelative(entities) ==
  /\ "timeRange" \in DOMAIN entities
  /\ "relative" \in DOMAIN entities.timeRange
  /\ entities.timeRange.relative # <<>>

\* every part is pushed, whatever the entities hold
formatCommandSummary_AllParts(cmd) ==
  LET e == cmd.entities
      Of(field) == IF field \in DOMAIN e THEN e[field] ELSE <<>>
  IN  join(<< <<"C","r","i","m","e",":"," ">> \o join(Of("crimeType"), <<","," ">>),
              <<"L","o","c","a","t","i","o","n",":"," ">> \o Of("location"),
              <<"T","i","m","e",":"," ">> \o (IF HasRelative(e) THEN e.timeRange.relative ELSE <<>>),
              <<"S","u","s","p","e","c","t",":"," ">> \o Of("suspect"),
              <<"C","a","s","e"," ","I","D",":"," ">> \o Of("caseId") >>, <<" ","|"," ">>)

formatCommandSummary(cmd) ==
  LET e == cmd.entities
      parts ==
        (IF "crimeType" \in DOMAIN e /\ Len(e.crimeType) > 0
           THEN << <<"C","r","i","m","e",":"," ">> \o join(e.crimeType, <<","," ">>) >> ELSE <<>>)
        \o (IF ~NoString(e, "location") THEN << <<"L","o","c","a","t","i","o","n",":"," ">> \o e.location >> ELSE <<>>)
        \o (IF HasRelative(e) THEN << <<"T","i","m","e",":"," ">> \o e.timeRange.relative >> ELSE <<>>)
        \o (IF ~NoString(e, "suspect") THEN << <<"S","u","s","p","e","c","t",":"," ">> \o e.suspect >> ELSE <<>>)
        \o (IF ~NoString(e, "caseId") THEN << <<"C","a","s","e"," ","I","D",":"," ">> \o e.caseId >> ELSE <<>>)
  IN  IF Len(parts) > 0 THEN join(parts, <<" ","|"," ">>) ELSE <<"G","e","n","e","r","a","l"," ","s","e","a","r","c","h">>

----------------------------------------------------------------------------
(* The utterances *)

\* the longest tail of fillers behind an utterance
MaxPad == 2

\* the last tick of the clock
MaxNow == 1

ScenarioA == <<"s","h","o","w"," ","m","e"," ","a","l","l"," ","a","r","m","e","d"," ","r","o","b","b","e","r","i","e","s"," ","t","h","i","s"," ","m","o","n","t","h">>

ScenarioB == <<"f","i","n","d"," ","c","a","s","e","s"," ","n","e","a","r"," ","s","e","c","t","o","r"," ","9"," ","f","r","o","m"," ","l","a","s","t"," ","w","e","e","k">>

ScenarioC == <<>>

ScenarioD == <<"s","h","o","w"," ","r","o","b","b","e","r","y"," ","a","n","d"," ","b","u","r","g","l","a","r","y"," ","c","a","s","e","s">>

ScenarioE == <<"c","a","s","e"," ","i","d"," ","C","A","S","E","-","2","0","2","4","-","0","0","1">>

Scenarios == {ScenarioA, ScenarioB, ScenarioC, ScenarioD, ScenarioE}

\* the phrases utterances are put together from
Phrases ==
  { <<>>,
    <<"s","h","o","w">>, <<" ","F","i","n","d">>, <<"g","e","t"," ","m","e"," ","a","l","l">>, <<"f","i","l","t","e","r">>,
    <<"r","o","b","b","e","r","y">>, <<"a","r","m","e","d"," ","r","o","b","b","e","r","y">>, <<"a","r","m","e","d"," ","r","o","b","b","e","r","i","e","s">>, <<"r","o","b","b","e","r","y"," ","a","n","d"," ","b","u","r","g","l","a","r","y"," ","c","a","s","e","s">>,
    <<"n","e","a","r"," ","s","e","c","t","o","r"," ","9">>, <<"i","n"," ","d","o","w","n","t","o","w","n">>, <<"s","e","c","t","o","r"," ","1","2">>, <<"d","i","s","t","r","i","c","t"," ","5"," ","n","o","r","t","h">>, <<"w","i","t","h","i","n">>,
    <<"a","t"," "," "," ","-","x">>, <<"d","i","s","t","r","i","c","t"," "," ","-","5">>,
    <<"t","o","d","a","y">>, <<"l","a","s","t"," ","w","e","e","k">>, <<"t","h","i","s"," ","m","o","n","t","h">>, <<"t","h","i","s"," ","w","e","e","k","\t">>, <<"1","2","/","2","5","/","2","0","2","4">>, <<"1","/","3","2","/","2","0","2","4">>, <<"s","h","o","w",","," ","1","2">>,
    <<"s","u","s","p","e","c","t"," ","n","a","m","e","d"," ","j","o","h","n">>, <<"p","e","r","p","e","t","r","a","t","o","r">>, <<"s","u","s","p","e","c","t"," "," "," ",",","x">>,
    <<"c","a","s","e"," ","i","d"," ","C","A","S","E","-","2","0","2","4","-","0","0","1">>, <<"c","a","s","e"," ",","," ","c","a","s","e"," ","1","2">>, <<"c","a","s","e"," ","i","d"," ",",","x">>,
    <<"c","a","s","e","s"," ","f","r","o","m">>, <<"s","e","a","r","c","h">>, <<"m","a","t","c","h","i","n","g">>, <<"a","r","o","u","n","d"," ","t","o","w","n">>, <<"l","a","s","t"," ","m","o","n","t","h">>, <<"y","e","s","t","e","r","d","a","y"," ","t","h","i","s"," ","y","e","a","r">>,
    <<"i","n"," ","9">>, <<"n","a","r","r","o","w">>, <<"f","i","n","d"," ","n","e","a","r"," ","t","o","w","n">>, <<"m","u","r","d","e","r"," ","t","h","e","f","t">> }

\* three stop words: they add three words and no keyword
Filler == <<"a","n","d"," ","o","r"," ","b","u","t">>

\* the non-empty ones of the parts, with one blank between neighbours
RECURSIVE Sentence(_)
Sentence(parts) ==
  IF parts = <<>> THEN <<>>
  ELSE LET head == Sentence(SubSeq(parts, 1, Len(parts) - 1))
           l == parts[Len(parts)]
       IN  IF l = <<>> THEN head
           ELSE IF head = <<>> THEN l
           ELSE head \o <<" ">> \o l

Utterance(a, b, n) == Sentence(<<a, b>> \o [k \in 1..n |-> Filler])

Inputs ==
  Scenarios \cup {Utterance(a, b, n) : a \in Phrases, b \in Phrases, n \in 0..MaxPad}

\* the utterances whose calls are repeated and interleaved
Watched == Scenarios \cup Phrases

\* the utterances of the other callers
Others == {ScenarioD, <<"y","e","s","t","e","r","d","a","y">>}

----------------------------------------------------------------------------
(* The calls *)

NotCalled == [intent |-> "none"]

\* no string: formatCommandSummary has not returned
NoSummary == <<"none">>

\* no request to the match-case function
NoRequest == [pc |-> "none"]

\* manual case entry is not mounted
NoForm == [pc |-> "none"]

\* the clarifier has no call of its own
NoClarifier == [pc |-> "none"]

\* the voice command center is not mounted
NoCenter == [pc |-> "none"]

\* no ProtectedRoute is mounted
NoRoute == [pc |-> "none"]

Unmounted ==
  /\ clarifier = NoClarifier
  /\ center = NoCenter
  /\ route = NoRoute

\* the module is loaded: the tables are initialised, no call has been made
ModuleLoaded ==
  /\ CRIME_TYPES = CrimeTypeVocabulary
  /\ TEMPORAL_KEYWORDS = TemporalKeywordTable
  /\ now = 0
  /\ parsedAt = <<0, 0>>
  /\ firstAt = <<0, 0>>
  /\ summary = NoSummary
  /\ calls = <<>>

\* the application is loaded
Loaded ==
  /\ ModuleLoaded
  /\ match = NoRequest
  /\ entry = NoForm
  /\ Unmounted

\* the readings of two successive new Date(): less than a day apart
Readings == {<<now, later>> : later \in {l \in now..(now + DayLength - 1) : l <= MaxNow}}

Init ==
  /\ Loaded
  /\ text \in Inputs
  /\ parsed = NotCalled
  /\ first = NotCalled

\* a caller invokes parseVoiceCommand(text)
Call ==
  \E clock \in Readings :
    /\ parsed' = parseVoiceCommand(text, clock)
    /\ parsedAt' = clock
    /\ first' = IF first = NotCalled THEN parsed' ELSE first
    /\ firstAt' = IF first = NotCalled THEN clock ELSE firstAt
    /\ now' = clock[2]
    /\ UNCHANGED <<tables, text, summary, calls, outside>>

\* the one call of a behaviour of Spec
Parse ==
  /\ parsed = NotCalled
  /\ Call

\* another caller invokes parseVoiceCommand on an utterance of its own
CallOther(t) ==
  \E clock \in Readings :
    /\ parsed' = parseVoiceCommand(t, clock)
    /\ parsedAt' = clock
    /\ now' = clock[2]
    /\ UNCHANGED <<tables, text, first, firstAt, summary, calls, outside>>

\* the clock ticks
Tick ==
  /\ now < MaxNow
  /\ now' = now + 1
  /\ UNCHANGED <<tables, text, parsed, parsedAt, first, firstAt, summary, calls, outside>>

Next ==
  \/ Parse
  \/ Tick

\* one call of parseVoiceCommand, on any utterance, on any day
Spec == Init /\ [][Next]_vars

InitCalls ==
  /\ Loaded
  /\ text \in Watched
  /\ parsed = NotCalled
  /\ first = NotCalled

NextCalls ==
  \/ Call
  \/ \E t \in Others : CallOther(t)
  \/ Tick

\* any number of calls on one utterance, on any days, with the calls of
\* other callers in between
SpecCalls == InitCalls /\ [][NextCalls]_vars

----------------------------------------------------------------------------
(* The callers: calls of parseVoiceCommand that proceed statement by       *)
(* statement, those of one caller between those of another                 *)

Callers == {"a", "b"}

CallerTexts == {ScenarioD, <<"a","r","m","e","d"," ","r","o","b","b","e","r","y"," ","l","a","s","t"," ","w","e","e","k">>, <<"y","e","s","t","e","r","d","a","y"," ","i","n"," ","9">>}

\* no call of the caller is under way
Idle == [pc |-> "idle"]

InitCallers ==
  /\ CRIME_TYPES = CrimeTypeVocabulary
  /\ TEMPORAL_KEYWORDS = TemporalKeywordTable
  /\ now = 0
  /\ text = <<>>
  /\ parsed = NotCalled
  /\ parsedAt = <<0, 0>>
  /\ first = NotCalled
  /\ firstAt = <<0, 0>>
  /\ summary = NoSummary
  /\ calls = [c \in Callers |-> Idle]
  /\ match = NoRequest
  /\ entry = NoForm
  /\ Unmounted

\* the locals of the call of c, with those a statement has just set
Set(c, locals) == [calls EXCEPT ![c] = locals @@ calls[c]]

\* parseVoiceCommand(t) is entered: its locals are new, text is normalized
Enter(c, t) ==
  /\ calls[c].pc \in {"idle", "returned"}
  /\ calls' = [calls EXCEPT ![c] =
                 [pc |-> "intent", text |-> t, normalizedText |-> trim(toLowerCase(t))]]
  /\ UNCHANGED <<tables, text, now, parsed, parsedAt, first, firstAt, summary, outside>>

Intent(c) ==
  /\ calls[c].pc = "intent"
  /\ calls' = Set(c, [pc |-> "entities", intent |-> determineIntent(calls[c].normalizedText)])
  /\ UNCHANGED <<tables, text, now, parsed, parsedAt, first, firstAt, summary, outside>>

\* the filter takes the crime types that do not occur out of CRIME_TYPES itself
Entities_FilterInPlace(c) ==
  /\ calls[c].pc = "entities"
  /\ \E clock \in Readings :
       /\ calls' = Set(c, [pc |-> "confidence", clock |-> clock,
                            entities |-> extractEntities(calls[c].normalizedText, clock)])
       /\ now' = clock[2]
  /\ CRIME_TYPES' = SelectSeq(CRIME_TYPES, LAMBDA type : includes(calls[c].normalizedText, type))
  /\ UNCHANGED <<TEMPORAL_KEYWORDS, text, parsed, parsedAt, first, firstAt, summary, outside>>

\* extractEntities reads the tables and the clock
Entities(c) ==
  /\ calls[c].pc = "entities"
  /\ \E clock \in Readings :
       /\ calls' = Set(c, [pc |-> "confidence", clock |-> clock,
                            entities |-> extractEntities(calls[c].normalizedText, clock)])
       /\ now' = clock[2]
  /\ UNCHANGED <<tables, text, parsed, parsedAt, first, firstAt, summary, outside>>

Confidence(c) ==
  /\ calls[c].pc = "confidence"
  /\ LET confidence == calculateConfidence(calls[c].intent, calls[c].entities,
                                            calls[c].normalizedText)
     IN  calls' = Set(c, [pc |-> "question", confidence |-> confidence,
                          needsClarification |-> confidence < 7])
  /\ UNCHANGED <<tables, text, now, parsed, parsedAt, first, firstAt, summary, outside>>

\* the question, if any, and the return of the ParsedCommand
Return(c) ==
  /\ calls[c].pc = "question"
  /\ calls' = Set(c, [pc |-> "returned",
                       result |->
                         [intent |-> calls[c].intent,
                          entities |-> calls[c].entities,
                          confidence |-> calls[c].confidence,
                          rawText |-> calls[c].text,
                          needsClarification |-> calls[c].needsClarification,
                          clarificationQuestion |->
                            IF calls[c].needsClarification
                              THEN generateClarificationQuestion(calls[c].intent, calls[c].entities,
                                                                 calls[c].normalizedText)
                              ELSE Undefined]])
  /\ UNCHANGED <<tables, text, now, parsed, parsedAt, first, firstAt, summary, outside>>

NextCallers ==
  \/ \E c \in Callers, t \in CallerTexts : Enter(c, t)
  \/ \E c \in Callers : Intent(c)
  \/ \E c \in Callers : Entities(c)
  \/ \E c \in Callers : Confidence(c)
  \/ \E c \in Callers : Return(c)
  \/ Tick

\* several callers, each making call after call, in any interleaving of the
\* statements of their calls
SpecCallers == InitCallers /\ [][NextCallers]_vars

----------------------------------------------------------------------------
(* The summaries *)

\* a value that may be missing: no element, or the one value
Optional(S) == {<<>>} \cup {<<v>> : v \in S}

OptionalField(name, o) == Field(name, o # <<>>, IF o # <<>> THEN o[1] ELSE <<>>)

\* the values of the fields of a CommandEntities, the empty ones among them
CrimeTypeLists == {<<>>, << <<"r","o","b","b","e","r","y">> >>, << <<"a","r","m","e","d"," ","r","o","b","b","e","r","y">>, <<"r","o","b","b","e","r","y">> >>}

Strings == {<<>>, <<"9">>}

TimeRanges ==
  { [start |-> 0, end |-> 0, relative |-> <<"l","a","s","t"," ","w","e","e","k">>],
    [start |-> 0, end |-> 0, relative |-> <<>>],
    [start |-> newDate(<<"1","2","/","2","5","/","2","0","2","4">>), end |-> newDate(<<"1","2","/","2","5","/","2","0","2","4">>)] }

KeywordLists == {<< <<"c","a","s","e","s">> >>}

\* the CommandEntities objects: every field missing, empty or with a value
EntityObjects ==
  { OptionalField("crimeType", c) @@ OptionalField("location", l)
    @@ OptionalField("timeRange", t) @@ OptionalField("suspect", u)
    @@ OptionalField("caseId", i) @@ OptionalField("keywords", k) :
      c \in Optional(CrimeTypeLists), l \in Optional(Strings), t \in Optional(TimeRanges),
      u \in Optional(Strings), i \in Optional(Strings), k \in Optional(KeywordLists) }

\* the ParsedCommand values handed to formatCommandSummary: those of the
\* interface, and those parseVoiceCommand returns
Commands ==
  { [intent |-> "search_cases", entities |-> e, confidence |-> 7, rawText |-> <<>>,
     needsClarification |-> FALSE, clarificationQuestion |-> Undefined] :
      e \in EntityObjects }
  \cup {parseVoiceCommand(t, <<0, 0>>) : t \in Watched}

InitSummary ==
  /\ Loaded
  /\ parsed \in Commands
  /\ text = parsed.rawText
  /\ first = parsed

\* a caller invokes formatCommandSummary(parsed)
Summarize ==
  /\ parsed # NotCalled
  /\ summary' = formatCommandSummary(parsed)
  /\ UNCHANGED <<tables, text, now, parsed, parsedAt, first, firstAt, calls, outside>>

NextSummary == Summarize

\* one call of formatCommandSummary, on any ParsedCommand
SpecSummary == InitSummary /\ [][NextSummary]_vars

----------------------------------------------------------------------------
(* The match-case function (supabase/functions/match-case)                 *)
(* A JSON value is a record with its type; a string is known by its length. *)

Missing == [type |-> "undefined"]

Null == [type |-> "null"]

Number(n) == [type |-> "number", value |-> n]

String(n) == [type |-> "string", length |-> n]

\* !v
Falsy(v) ==
  \/ v.type \in {"undefined", "null"}
  \/ v.type = "string" /\ v.length = 0
  \/ v.type = "number" /\ v.value = 0

\* !v || typeof v !== 'string' || v.length < min || v.length > max
BadText(v, min, max) ==
  Falsy(v) \/ v.type # "string" \/ v.length < min \/ v.length > max

\* v && (typeof v !== 'string' || v.length > max)
BadOptionalText(v, max) ==
  ~Falsy(v) /\ (v.type # "string" \/ v.length > max)

\* the input validation: the error of the first test that fails, "" if none does
ValidationError(caseDetails) ==
  IF Falsy(caseDetails) \/ caseDetails.type # "object" THEN "Invalid case details"
  ELSE IF BadText(caseDetails.title, 5, 200) THEN "Invalid title: must be 5-200 characters"
  ELSE IF BadText(caseDetails.description, 20, 2000)
    THEN "Invalid description: must be 20-2000 characters"
  ELSE IF BadText(caseDetails.crime_type, 3, 100)
    THEN "Invalid crime type: must be 3-100 characters"
  ELSE IF caseDetails.severity \notin {"low", "medium", "high", "critical"}
    THEN "Invalid severity: must be low, medium, high, or critical"
  ELSE IF BadOptionalText(caseDetails.location, 200)
    THEN "Invalid location: must be less than 200 characters"
  ELSE IF BadOptionalText(caseDetails.suspect_description, 1000)
    THEN "Invalid suspect description: must be less than 1000 characters"
  ELSE IF BadOptionalText(caseDetails.evidence_description, 1000)
    THEN "Invalid evidence description: must be less than 1000 characters"
  ELSE ""

\* the case details a request may carry: values at and around the limits
CaseDetails ==
  [type : {"object"},
   title : {Missing, Number(7), String(4), String(5), String(201)},
   description : {Null, String(19), String(2000), String(2001)},
   crime_type : {String(0), String(2), String(3), String(101)},
   severity : {"undefined", "low", "critical", "urgent"},
   location : {Missing, Number(0), Number(7), String(200), String(201)},
   suspect_description : {Missing, String(1000), String(1001)},
   evidence_description : {String(0), String(1001)}]
  \cup {Missing, Null, Number(0), String(12)}

\* the bodies of a request: no JSON, the JSON null, a JSON number, an object
Bodies ==
  {[json |-> FALSE], [json |-> TRUE, value |-> Null], [json |-> TRUE, value |-> Number(7)]}
  \cup {[json |-> TRUE, value |-> [type |-> "object", caseDetails |-> d]] : d \in CaseDetails}

\* the environment of the function: is the variable set
Environments == [SUPABASE_URL : BOOLEAN, LOVABLE_API_KEY : BOOLEAN]

\* the statuses the AI gateway answers with
GatewayStatuses == {200, 400, 402, 429, 500}

NoResponse == [status |-> 0]

\* new Response(JSON.stringify({ error }), { status })
ErrorResponse(status, error) == [status |-> status, error |-> error]

\* a request has arrived
InitMatch ==
  /\ ModuleLoaded
  /\ Unmounted
  /\ text = <<>>
  /\ parsed = NotCalled
  /\ first = NotCalled
  /\ \E method \in {"OPTIONS", "POST"}, body \in Bodies, env \in Environments :
       match = [pc |-> "received", method |-> method, body |-> body, env |-> env,
                contacted |-> {}, aiStatus |-> 0, response |-> NoResponse]
  /\ entry = NoForm

\* the function ends with the response
Respond(response) ==
  /\ match' = [match EXCEPT !.pc = "responded", !.response = response]
  /\ UNCHANGED <<interpreter, entry, elsewhere>>

\* the catch block
Catch(message) == Respond(ErrorResponse(500, message))

\* the CORS preflight
Preflight ==
  /\ match.pc = "received"
  /\ match.method = "OPTIONS"
  /\ Respond([status |-> 200, body |-> "null"])

\* req.json() has settled: the destructuring, the input validation, and the
\* query for the published cases is sent
Validate ==
  /\ match.pc = "received"
  /\ match.method # "OPTIONS"
  /\ IF ~match.body.json THEN Catch("req.json() rejected")
     ELSE IF match.body.value = Null THEN Catch("cannot destructure null")
     ELSE LET caseDetails == IF match.body.value.type = "object"
                               THEN match.body.value.caseDetails ELSE Missing
          IN  IF ValidationError(caseDetails) # ""
                THEN Respond(ErrorResponse(400, ValidationError(caseDetails)))
              ELSE IF ~match.env.SUPABASE_URL THEN Catch("supabaseUrl is required")
              ELSE /\ match' = [match EXCEPT !.pc = "fetching cases",
                                             !.contacted = @ \cup {"database"}]
                   /\ UNCHANGED <<interpreter, entry, elsewhere>>

\* the query has settled, with the cases or with casesError; the key is read
\* and the request to the AI gateway is sent
CasesFetched(casesError) ==
  /\ match.pc = "fetching cases"
  /\ IF casesError THEN Catch("Failed to fetch cases")
     ELSE IF ~match.env.LOVABLE_API_KEY THEN Catch("LOVABLE_API_KEY is not configured")
     ELSE /\ match' = [match EXCEPT !.pc = "asking", !.contacted = @ \cup {"AI gateway"}]
          /\ UNCHANGED <<interpreter, entry, elsewhere>>

\* every failure is thrown: no response of its own for 429 and 402
Answered_NoDistinction(status) ==
  /\ match.pc = "asking"
  /\ status \in GatewayStatuses \cup {0}
  /\ IF status = 0 THEN Catch("fetch rejected")
     ELSE /\ match' = [match EXCEPT !.aiStatus = status,
                                    !.pc = IF status \in 200..299 THEN "reading result"
                                           ELSE "reading error"]
          /\ UNCHANGED <<interpreter, entry, elsewhere>>

\* the AI gateway has answered, or the request to it has failed (status 0)
Answered(status) ==
  /\ match.pc = "asking"
  /\ status \in GatewayStatuses \cup {0}
  /\ IF status = 0 THEN Catch("fetch rejected")
     ELSE IF status = 429
       THEN /\ match' = [match EXCEPT !.aiStatus = status, !.pc = "responded",
                           !.response = ErrorResponse(429, "Rate limit exceeded. Please try again later.")]
            /\ UNCHANGED <<interpreter, entry, elsewhere>>
     ELSE IF status = 402
       THEN /\ match' = [match EXCEPT !.aiStatus = status, !.pc = "responded",
                           !.response = ErrorResponse(402, "AI credits exhausted. Please add credits to your workspace.")]
            /\ UNCHANGED <<interpreter, entry, elsewhere>>
     ELSE /\ match' = [match EXCEPT !.aiStatus = status,
                                    !.pc = IF status \in 200..299 THEN "reading result"
                                           ELSE "reading error"]
          /\ UNCHANGED <<interpreter, entry, elsewhere>>

\* aiResponse.text() has settled: the error is logged and thrown
ErrorRead ==
  /\ match.pc = "reading error"
  /\ Catch("AI analysis failed")

\* what aiResponse.json() settles with: it rejects, or the result has no tool
\* call with arguments, or arguments that JSON.parse rejects, or accepts
Results == {"no JSON", "no tool call", "arguments that do not parse", "arguments that parse"}

\* aiResponse.json() has settled: the tool call is taken out and parsed
ResultRead(aiResult) ==
  /\ match.pc = "reading result"
  /\ IF aiResult = "no JSON" THEN Catch("aiResponse.json() rejected")
     ELSE IF aiResult = "no tool call" THEN Catch("No structured output received from AI")
     ELSE IF aiResult = "arguments that do not parse" THEN Catch("JSON.parse threw")
     ELSE Respond([status |-> 200, success |-> TRUE, analysis |-> "parsed"])

NextMatch ==
  \/ Preflight
  \/ Validate
  \/ \E casesError \in BOOLEAN : CasesFetched(casesError)
  \/ \E status \in GatewayStatuses \cup {0} : Answered(status)
  \/ ErrorRead
  \/ \E aiResult \in Results : ResultRead(aiResult)

\* one request to the match-case function
SpecMatch == InitMatch /\ [][NextMatch]_vars

----------------------------------------------------------------------------
(* Manual case entry (ManualCaseEntry): a text of the form is known by its  *)
(* length                                                                  *)

\* useState: the form as it is mounted
EmptyForm ==
  [case_number |-> 0, title |-> 0, description |-> 0, crime_type |-> 0,
   severity |-> "medium", location |-> 0, primary_suspect |-> 0, evidence_summary |-> 0]

\* what the user enters into a field: lengths at and around the limits
Entered ==
  [case_number |-> {0, 3}, title |-> {0, 5, 201}, description |-> {0, 20},
   crime_type |-> {0, 1}, severity |-> {"medium", "critical"}, location |-> {0, 200, 201},
   primary_suspect |-> {0, 501}, evidence_summary |-> {0, 1001}]

\* caseSchema: the message of the first issue, "" when the data parses
SchemaIssue(data) ==
  IF data.case_number < 3 THEN "Case number must be at least 3 characters"
  ELSE IF data.title < 5 THEN "Title must be at least 5 characters"
  ELSE IF data.title > 200 THEN "String must contain at most 200 character(s)"
  ELSE IF data.description < 20 THEN "Description must be at least 20 characters"
  ELSE IF data.description > 2000 THEN "String must contain at most 2000 character(s)"
  ELSE IF data.crime_type < 1 THEN "Crime type is required"
  ELSE IF data.severity \notin {"low", "medium", "high", "critical"} THEN "Invalid enum value"
  ELSE IF data.location < 1 THEN "Location is required"
  ELSE IF data.location > 200 THEN "String must contain at most 200 character(s)"
  ELSE IF data.primary_suspect > 500 THEN "String must contain at most 500 character(s)"
  ELSE IF data.evidence_summary > 1000 THEN "String must contain at most 1000 character(s)"
  ELSE ""

NoToast == [title |-> "none"]

Toast(title, description, variant) ==
  [title |-> title, description |-> description, variant |-> variant]

\* the component is mounted
InitEntry ==
  /\ ModuleLoaded
  /\ Unmounted
  /\ text = <<>>
  /\ parsed = NotCalled
  /\ first = NotCalled
  /\ match = NoRequest
  /\ entry = [pc |-> "idle", formData |-> EmptyForm, loading |-> FALSE,
               toast |-> NoToast, inserted |-> {}]

\* onChange, onValueChange: the user enters a value into a field
Edit(field, value) ==
  /\ entry.pc # "none"
  /\ entry' = [entry EXCEPT !.formData[field] = value]
  /\ UNCHANGED <<interpreter, match, elsewhere>>

\* the form data is not parsed against the schema
Submit_NoValidation ==
  /\ entry.pc = "idle"
  /\ ~entry.loading
  /\ entry' = [pc |-> "authenticating", validatedData |-> entry.formData, loading |-> TRUE]
               @@ entry
  /\ UNCHANGED <<interpreter, match, elsewhere>>

\* handleSubmit up to its first await: the submit button is enabled, the form
\* data is parsed against the schema
Submit ==
  /\ entry.pc = "idle"
  /\ ~entry.loading
  /\ IF SchemaIssue(entry.formData) # ""
       THEN entry' = [entry EXCEPT
                        !.toast = Toast("Validation error", SchemaIssue(entry.formData), "destructive"),
                        !.loading = FALSE]
       ELSE entry' = [pc |-> "authenticating", validatedData |-> entry.formData, loading |-> TRUE]
                     @@ entry
  /\ UNCHANGED <<interpreter, match, elsewhere>>

\* supabase.auth.getUser() has settled: with a user (the insert is sent),
\* with none, or rejected
UserFetched(outcome) ==
  /\ entry.pc = "authenticating"
  /\ outcome \in {"user", "no user", "rejected"}
  /\ IF outcome = "user"
       THEN entry' = [entry EXCEPT !.pc = "inserting", !.inserted = @ \cup {entry.validatedData}]
       ELSE entry' = [entry EXCEPT
                        !.pc = "idle",
                        !.toast = Toast("Failed to create case",
                                        IF outcome = "no user" THEN "Not authenticated"
                                        ELSE "getUser rejected", "destructive"),
                        !.loading = FALSE]
  /\ UNCHANGED <<interpreter, match, elsewhere>>

\* the insert has settled, with an error or without
Inserted(error) ==
  /\ entry.pc = "inserting"
  /\ IF error
       THEN entry' = [entry EXCEPT
                        !.pc = "idle",
                        !.toast = Toast("Failed to create case", "Unknown error occurred",
                                        "destructive"),
                        !.loading = FALSE]
       ELSE entry' = [entry EXCEPT
                        !.pc = "idle",
                        !.toast = Toast("Case created successfully", "Case has been added", "default"),
                        !.formData = EmptyForm,
                        !.loading = FALSE]
  /\ UNCHANGED <<interpreter, match, elsewhere>>

NextEntry ==
  \/ \E field \in DOMAIN Entered : \E value \in Entered[field] : Edit(field, value)
  \/ Submit
  \/ \E outcome \in {"user", "no user", "rejected"} : UserFetched(outcome)
  \/ \E error \in BOOLEAN : Inserted(error)

\* the user fills in and submits the form, again and again
SpecEntry == InitEntry /\ [][NextEntry]_vars

\* the letters of s in upper case
Shouted(s) ==
  [i \in 1..Len(s) |->
     IF \E u \in 1..Len(LowerCase) : LowerCase[u] = s[i]
       THEN UpperCase[CHOOSE u \in 1..Len(LowerCase) : LowerCase[u] = s[i]]
       ELSE s[i]]

\* spellings of an utterance: with whitespace in front and behind, in upper
\* case, with a capital first
Spellings(t) ==
  { t,
    <<" ">> \o t,
    t \o <<"\t", " ">>,
    Shouted(t),
    IF t = <<>> THEN <<" ", "\t">>
    ELSE <<" ", "\t">> \o Shouted(<<t[1]>>) \o SubSeq(t, 2, Len(t)) \o <<" ">> }

NextSpellings ==
  \/ Call
  \/ \E t \in Spellings(text) : CallOther(t)
  \/ Tick

\* calls on one utterance and on other spellings of it, on any days
SpecSpellings == InitCalls /\ [][NextSpellings]_vars

----------------------------------------------------------------------------
(* The clarifier *)

\* the CommandEntities objects as extractEntities builds them: a crimeType
\* that is set is not empty
ClarifierEntities ==
  {e \in EntityObjects : "crimeType" \in DOMAIN e => e.crimeType # <<>>}

\* normalized texts of 1, 4 and 8 words
ClarifierTexts == {<<"x">>, <<"a"," ","b"," ","c"," ","d">>, <<"a"," ","b"," ","c"," ","d"," ","e"," ","f"," ","g"," ","h">>}

InitClarifier ==
  /\ ModuleLoaded
  /\ text = <<>>
  /\ parsed = NotCalled
  /\ first = NotCalled
  /\ match = NoRequest
  /\ entry = NoForm
  /\ center = NoCenter
  /\ route = NoRoute
  /\ \E intent \in CommandIntent, entities \in ClarifierEntities, normalizedText \in ClarifierTexts :
       clarifier = [pc |-> "extracted", intent |-> intent, entities |-> entities,
                    normalizedText |-> normalizedText]

\* parseVoiceCommand from the scoring on: the confidence, the threshold and
\* the question
Clarification ==
  /\ clarifier.pc = "extracted"
  /\ LET confidence == calculateConfidence(clarifier.intent, clarifier.entities,
                                           clarifier.normalizedText)
         needsClarification == confidence < 7
     IN  clarifier' =
           [pc |-> "returned",
            confidence |-> confidence,
            needsClarification |-> needsClarification,
            clarificationQuestion |->
              IF needsClarification
                THEN generateClarificationQuestion(clarifier.intent, clarifier.entities,
                                                   clarifier.normalizedText)
                ELSE Undefined] @@ clarifier
  /\ UNCHANGED <<interpreter, match, entry, center, route>>

NextClarifier == Clarification

\* the scoring and the clarifier on any intent and any entities
SpecClarifier == InitClarifier /\ [][NextClarifier]_vars

----------------------------------------------------------------------------
(* The voice command center *)

\* the commands handled in one behaviour
MaxCommands == 6

\* the state updates that can wait for one render
MaxQueued == 2

\* what is recognized or typed: a command that is understood, one that is
\* not, and blanks
CenterTexts == {<<"s","h","o","w"," ","r","o","b","b","e","r","y">>, <<"x">>, <<" ">>}

\* Array.prototype.slice(from, to), for from and to within 0..
slice(list, from, to) == SubSeq(list, from + 1, IF to < Len(list) THEN to ELSE Len(list))

\* the history keeps one entry more
commandHistoryUpdater_KeepsFive(t, prev) == <<t>> \o slice(prev, 0, 5)

\* (prev) => [text, ...prev.slice(0, 4)]
commandHistoryUpdater(t, prev) == <<t>> \o slice(prev, 0, 4)

\* the component is mounted, with or without the prop onCommandParsed
InitCenter ==
  /\ ModuleLoaded
  /\ text = <<>>
  /\ parsed = NotCalled
  /\ first = NotCalled
  /\ match = NoRequest
  /\ entry = NoForm
  /\ clarifier = NoClarifier
  /\ route = NoRoute
  /\ \E onCommandParsed \in BOOLEAN :
       center = [pc |-> "mounted",
                 onCommandParsed |-> onCommandParsed,
                 lastCommand |-> NotCalled,
                 commandHistory |-> <<>>,
                 queue |-> <<>>,      \* the state updates not yet rendered
                 toast |-> NoToast,   \* the latest toast, which is also spoken
                 handled |-> <<>>,    \* the texts handleVoiceCommand was called with
                 parses |-> 0,        \* the calls of parseVoiceCommand
                 reported |-> <<>>]   \* the arguments of the calls of onCommandParsed

\* handleVoiceCommand(t) from the parsed command on: setLastCommand,
\* setCommandHistory, the toast and onCommandParsed
commandParsed(t, cmd) ==
  [center EXCEPT
     !.parses = @ + 1,
     !.queue = Append(@, [lastCommand |-> cmd, text |-> t]),
     !.toast = IF cmd.needsClarification /\ cmd.clarificationQuestion # Undefined
                 THEN Toast("Clarification Needed", cmd.clarificationQuestion, "default")
                 ELSE Toast("Command Recognized", formatCommandSummary(cmd), "default"),
     !.reported = IF center.onCommandParsed THEN Append(@, cmd) ELSE @,
     !.handled = Append(@, t)]

\* handleVoiceCommand(t), the two new Date() of the parser reading clock
handleVoiceCommand(t, clock) == commandParsed(t, parseVoiceCommand(t, clock))

CanHandle ==
  /\ center.pc = "mounted"
  /\ Len(center.handled) < MaxCommands
  /\ Len(center.queue) < MaxQueued

\* the recognition delivers a result: the callback given to
\* useVoiceRecognition
Recognized(isFinal, t) ==
  /\ CanHandle
  /\ \E clock \in Readings :
       /\ center' = IF isFinal /\ trim(t) # <<>> THEN handleVoiceCommand(t, clock) ELSE center
       /\ now' = clock[2]
  /\ UNCHANGED <<tables, text, parsed, parsedAt, first, firstAt, summary, calls,
                 match, entry, clarifier, route>>

\* handleManualSubmit, the transcript being t
ManualSubmit(t) ==
  /\ CanHandle
  /\ \E clock \in Readings :
       /\ center' = IF trim(t) # <<>> THEN handleVoiceCommand(t, clock) ELSE center
       /\ now' = clock[2]
  /\ UNCHANGED <<tables, text, parsed, parsedAt, first, firstAt, summary, calls,
                 match, entry, clarifier, route>>

\* the state after the queued updates, in the order they were queued
RECURSIVE Rendered(_, _)
Rendered(state, queue) ==
  IF queue = <<>> THEN state
  ELSE Rendered([state EXCEPT
                   !.lastCommand = Head(queue).lastCommand,
                   !.commandHistory = commandHistoryUpdater(Head(queue).text, @)],
                Tail(queue))

\* React renders the component: the queued updates are applied
Render ==
  /\ center.pc = "mounted"
  /\ center.queue # <<>>
  /\ center' = [Rendered(center, center.queue) EXCEPT !.queue = <<>>]
  /\ UNCHANGED <<interpreter, match, entry, clarifier, route>>

NextCenter ==
  \/ \E isFinal \in BOOLEAN, t \in CenterTexts : Recognized(isFinal, t)
  \/ \E t \in CenterTexts : ManualSubmit(t)
  \/ Render

\* the voice command center, results and submissions in any order
SpecCenter == InitCenter /\ [][NextCenter]_vars

----------------------------------------------------------------------------
(* The protected route *)

\* the getUserRole calls that can be under way together
MaxFetches == 2

\* nobody is signed in
SignedOut == "null"

\* the accounts, and the role getUserRole finds for each
Users == {"ada", "bob"}

RoleOf == [u \in Users |-> IF u = "ada" THEN "admin" ELSE "user"]

\* what the component returns
RouteView(r) ==
  IF r.loading \/ r.checkingRole THEN "LoadingSpinner"
  ELSE IF r.user = SignedOut THEN "/auth"
  ELSE IF r.requireAdmin /\ r.role # "admin" THEN "/dashboard"
  ELSE "children"

\* the component has rendered: its effect runs when a dependency changed
Painted(r, changed) == [r EXCEPT !.shows = RouteView(r), !.effect = changed]

\* checkRole, up to its await: getUserRole is called for the user of this
\* render, or checkingRole is set to false
checkRole(r) ==
  IF r.user # SignedOut /\ r.requireAdmin
    THEN [r EXCEPT !.fetches = Append(@, r.user)]
    ELSE [r EXCEPT !.checkingRole = FALSE]

\* the route is mounted and has rendered once
InitRoute ==
  /\ ModuleLoaded
  /\ text = <<>>
  /\ parsed = NotCalled
  /\ first = NotCalled
  /\ match = NoRequest
  /\ entry = NoForm
  /\ clarifier = NoClarifier
  /\ center = NoCenter
  /\ \E requireAdmin \in BOOLEAN, user \in Users \cup {SignedOut}, loading \in BOOLEAN :
       route = Painted([pc |-> "mounted",
                        requireAdmin |-> requireAdmin,
                        user |-> user,
                        loading |-> loading,
                        role |-> "null",
                        checkingRole |-> TRUE,
                        fetches |-> <<>>,   \* of the getUserRole calls under way: the user
                        shows |-> "nothing",
                        effect |-> FALSE], TRUE)

\* useAuth returns another user or another loading flag: the route renders
AuthChanged(user, loading) ==
  /\ route.pc = "mounted"
  /\ ~route.effect
  /\ route.shows \in {"LoadingSpinner", "children"}
  /\ <<user, loading>> # <<route.user, route.loading>>
  /\ Len(route.fetches) < MaxFetches
  /\ route' = Painted([route EXCEPT !.user = user, !.loading = loading], TRUE)
  /\ UNCHANGED <<interpreter, match, entry, clarifier, center>>

\* the effect runs after the render: checkRole() unless loading
RunEffect ==
  /\ route.pc = "mounted"
  /\ route.effect
  /\ route' = Painted(IF route.loading THEN route ELSE checkRole(route), FALSE)
  /\ UNCHANGED <<interpreter, match, entry, clarifier, center>>

\* the k-th getUserRole under way returns: setRole, setCheckingRole(false),
\* and the route renders
RoleFetched(k) ==
  /\ route.pc = "mounted"
  /\ ~route.effect
  /\ route.shows \in {"LoadingSpinner", "children"}
  /\ k \in 1..Len(route.fetches)
  /\ route' = Painted([route EXCEPT
                         !.role = RoleOf[route.fetches[k]],
                         !.checkingRole = FALSE,
                         !.fetches = SubSeq(@, 1, k - 1) \o SubSeq(@, k + 1, Len(@))],
                      FALSE)
  /\ UNCHANGED <<interpreter, match, entry, clarifier, center>>

\* <Navigate replace>: the router leaves the page and the route is unmounted
Navigated ==
  /\ route.pc = "mounted"
  /\ ~route.effect
  /\ route.shows \in {"/auth", "/dashboard"}
  /\ route' = [route EXCEPT !.pc = "left"]
  /\ UNCHANGED <<interpreter, match, entry, clarifier, center>>

NextRoute ==
  \/ \E user \in Users \cup {SignedOut}, loading \in BOOLEAN : AuthChanged(user, loading)
  \/ RunEffect
  \/ \E k \in 1..MaxFetches : RoleFetched(k)
  \/ Navigated

\* a ProtectedRoute while the authentication state changes and role
\* fetches return
SpecRoute == InitRoute /\ [][NextRoute]_vars

----------------------------------------------------------------------------
(* The claims *)

\* a call has returned
Called == parsed # NotCalled

\* the text the interpreter works on
Normalized == trim(toLowerCase(parsed.rawText))

EntityKeys == {"crimeType", "location", "timeRange", "suspect", "caseId", "keywords"}

Templates ==
  {"rephrase", "specify_details", "multiple_crime_types", "time_period", "location", "fallback"}

\* C1: for every input the confidence lies between 0 and 1 inclusive (0 to 10
\* tenths) and needsClarification is true exactly when the confidence is
\* strictly below 0.7.
C1_ConfidenceAndThreshold ==
  Called =>
    /\ parsed.confidence \in 0..10
    /\ parsed.needsClarification = (parsed.confidence < 7)

\* a call has returned a confidence of exactly 0.7, and asks nothing
C1_Witness ==
  /\ Called
  /\ parsed.confidence = 7
  /\ ~parsed.needsClarification

\* C2: for every input the clarificationQuestion is defined, and one of the
\* non-empty questions, if and only if needsClarification is true.
C2_QuestionIffNeeded ==
  Called =>
    /\ (parsed.clarificationQuestion # Undefined) <=> parsed.needsClarification
    /\ parsed.needsClarification => parsed.clarificationQuestion.template \in Templates

\* a call has returned with a question, and it is not the one for an unknown
\* intent
C2_Witness ==
  /\ Called
  /\ parsed.needsClarification
  /\ parsed.clarificationQuestion.template = "time_period"

\* C3: parseVoiceCommand is total: on every input the call returns a
\* ParsedCommand, with all its fields, whose intent is one of the seven
\* CommandIntent values, whose entities hold only entity fields and whose
\* rawText is the input; when the intent is unknown the confidence is low or
\* a question is asked, no error is raised.
C3_Total ==
  Called =>
    /\ DOMAIN parsed = {"intent", "entities", "confidence", "rawText",
                        "needsClarification", "clarificationQuestion"}
    /\ parsed.intent \in CommandIntent
    /\ DOMAIN parsed.entities \subseteq EntityKeys
    /\ parsed.rawText = text

\* a call has returned the intent of the last rule of the cascade that names one
C3_Witness ==
  /\ Called
  /\ parsed.intent = "suspect_query"

\* C4: for the empty string the result has intent unknown, no entity field,
\* confidence 0, needsClarification true and the "didn't understand, please
\* rephrase" question.
C4_EmptyString ==
  (Called /\ parsed.rawText = <<>>) =>
    /\ parsed.intent = "unknown"
    /\ DOMAIN parsed.entities = {}
    /\ parsed.confidence = 0
    /\ parsed.needsClarification
    /\ parsed.clarificationQuestion = Question("rephrase", <<>>)

\* the call on the empty string has returned
C4_Witness ==
  /\ Called
  /\ parsed.rawText = <<>>

\* a time range by its distances from the readings of the clock by the call
Offsets(timeRange, at) ==
  IF "relative" \in DOMAIN timeRange
    THEN [relative |-> timeRange.relative,
          startDaysAgo |-> at[2] - timeRange.start,
          endDaysAgo |-> at[1] - timeRange.end]
    ELSE timeRange

\* what two calls on one string have to agree on
Outcome(cmd, at) ==
  [intent |-> cmd.intent,
   entities |-> [k \in DOMAIN cmd.entities |->
                   IF k = "timeRange" THEN Offsets(cmd.entities[k], at) ELSE cmd.entities[k]],
   confidence |-> cmd.confidence,
   needsClarification |-> cmd.needsClarification,
   clarificationQuestion |-> cmd.clarificationQuestion]

\* C5: parseVoiceCommand is deterministic: the latest call and the first call,
\* when on the same string, whatever the times of the two calls and whatever
\* other calls came in between, return the same intent, the same entity fields
\* and values (a relative time range: the same label and the same distances
\* of start and end from what the call read from the clock), the same
\* confidence, needsClarification and clarificationQuestion.
C5_Deterministic ==
  (first # NotCalled /\ Called /\ parsed.rawText = first.rawText) =>
    Outcome(parsed, parsedAt) = Outcome(first, firstAt)

\* the string has been parsed at two different times, with a relative time range
C5_Witness ==
  /\ first # NotCalled
  /\ Called
  /\ parsed.rawText = first.rawText
  /\ parsedAt # firstAt
  /\ "timeRange" \in DOMAIN parsed.entities
  /\ "relative" \in DOMAIN parsed.entities.timeRange

\* C6: for "show me all armed robberies this month" the intent is
\* crime_type_query and entities.crimeType includes "armed robbery" and
\* "robbery".
C6_ScenarioA ==
  (Called /\ parsed.rawText = ScenarioA) =>
    /\ parsed.intent = "crime_type_query"
    /\ "crimeType" \in DOMAIN parsed.entities
    /\ \E i \in 1..Len(parsed.entities.crimeType) :
         parsed.entities.crimeType[i] = <<"a","r","m","e","d"," ","r","o","b","b","e","r","y">>
    /\ \E i \in 1..Len(parsed.entities.crimeType) :
         parsed.entities.crimeType[i] = <<"r","o","b","b","e","r","y">>

\* C7: for "find cases near sector 9 from last week" entities.location is
\* "9", the intent is location_query and entities.timeRange.relative is
\* "last week".
C7_ScenarioB ==
  (Called /\ parsed.rawText = ScenarioB) =>
    /\ parsed.intent = "location_query"
    /\ "location" \in DOMAIN parsed.entities
    /\ parsed.entities.location = <<"9">>
    /\ "timeRange" \in DOMAIN parsed.entities
    /\ "relative" \in DOMAIN parsed.entities.timeRange
    /\ parsed.entities.timeRange.relative = <<"l","a","s","t"," ","w","e","e","k">>

\* C8: for "show robbery and burglary cases" entities.crimeType is
\* ["robbery", "burglary"], needsClarification is true and the question is
\* the multiple-crime-types question listing "robbery, burglary".
C8_ScenarioD ==
  (Called /\ parsed.rawText = ScenarioD) =>
    /\ "crimeType" \in DOMAIN parsed.entities
    /\ parsed.entities.crimeType = << <<"r","o","b","b","e","r","y">>, <<"b","u","r","g","l","a","r","y">> >>
    /\ parsed.needsClarification
    /\ parsed.clarificationQuestion = Question("multiple_crime_types", <<"r","o","b","b","e","r","y",","," ","b","u","r","g","l","a","r","y">>)

\* C9: for every input each entity field that is present carries a detected
\* value: location, suspect and caseId are never the empty string, crimeType
\* and keywords are never empty lists.
C9_NoEmptyField ==
  Called =>
    \A k \in DOMAIN parsed.entities \cap {"location", "suspect", "caseId", "crimeType", "keywords"} :
      parsed.entities[k] # <<>>

\* the run of case-id characters at position q of s (empty when there is none)
CaseIdRun(s, q) ==
  IF RunEnds(s, q, CaseIdChars) = {} THEN <<>> ELSE SubSeq(s, q, Max(RunEnds(s, q, CaseIdChars)))

\* the position behind "id" and the whitespace after it, when they stand at p
BehindId(s, p) ==
  IF StartsAt(s, p, <<"i","d">>) /\ SpaceRun(s, p + 2) > 0 THEN p + 2 + SpaceRun(s, p + 2) ELSE p

\* C10 as stated: the case id is the run of letters, digits and hyphens that
\* follows the first occurrence of "case" + whitespace (+ optional "id" +
\* whitespace) in the normalized text, and the field is absent when that run
\* is empty or "case" + whitespace does not occur.
C10_FirstOccurrence ==
  Called =>
    LET s == Normalized
        I == {i \in 1..Len(s) : StartsAt(s, i, <<"c","a","s","e">>) /\ SpaceRun(s, i + 4) > 0}
        run == IF I = {} THEN <<>>
               ELSE CaseIdRun(s, BehindId(s, Min(I) + 4 + SpaceRun(s, Min(I) + 4)))
    IN  IF run = <<>> THEN "caseId" \notin DOMAIN parsed.entities
        ELSE "caseId" \in DOMAIN parsed.entities /\ parsed.entities.caseId = run

\* where the run starts for an occurrence of "case" + whitespace at i: behind
\* "id" + whitespace when a case-id character follows them, else behind the
\* whitespace when a case-id character follows it, else nowhere (0)
CaseIdStart(s, i) ==
  IF ~(StartsAt(s, i, <<"c","a","s","e">>) /\ SpaceRun(s, i + 4) > 0) THEN 0
  ELSE LET p == i + 4 + SpaceRun(s, i + 4)
       IN  IF CaseIdRun(s, BehindId(s, p)) # <<>> THEN BehindId(s, p)
           ELSE IF CaseIdRun(s, p) # <<>> THEN p
           ELSE 0

\* C10 as amended: the case id is the run of letters, digits and hyphens that
\* follows the first occurrence of "case" + whitespace (+ optional "id" +
\* whitespace) that such a run directly follows, "id" and its whitespace being
\* skipped only when a run follows them; it is in lowercase, and the field is
\* absent when there is no such occurrence. "case id CASE-2024-001" yields
\* "case-2024-001".
C10_FirstMatch ==
  Called =>
    LET s == Normalized
        I == {i \in 1..Len(s) : CaseIdStart(s, i) # 0}
    IN  /\ IF I = {} THEN "caseId" \notin DOMAIN parsed.entities
           ELSE /\ "caseId" \in DOMAIN parsed.entities
                /\ parsed.entities.caseId = CaseIdRun(s, CaseIdStart(s, Min(I)))
                /\ \A x \in 1..Len(parsed.entities.caseId) :
                     parsed.entities.caseId[x] \in CaseIdChars
        /\ parsed.rawText = ScenarioE =>
             /\ "caseId" \in DOMAIN parsed.entities
             /\ parsed.entities.caseId = <<"c","a","s","e","-","2","0","2","4","-","0","0","1">>

\* the call on "case id CASE-2024-001" has returned the case id in lowercase
C10_Witness ==
  /\ Called
  /\ parsed.rawText = ScenarioE
  /\ "caseId" \in DOMAIN parsed.entities
  /\ parsed.entities.caseId = <<"c","a","s","e","-","2","0","2","4","-","0","0","1">>

\* the five fields of the summary, in its order
SummaryFields == <<"crimeType", "location", "timeRange", "suspect", "caseId">>

SummaryLabel ==
  [crimeType |-> <<"C","r","i","m","e",":"," ">>, location |-> <<"L","o","c","a","t","i","o","n",":"," ">>, timeRange |-> <<"T","i","m","e",":"," ">>,
   suspect |-> <<"S","u","s","p","e","c","t",":"," ">>, caseId |-> <<"C","a","s","e"," ","I","D",":"," ">>]

\* what the part of a field shows behind its label
SummaryValue(e, f) ==
  IF f = "crimeType" THEN join(e.crimeType, <<","," ">>)
  ELSE IF f = "timeRange" THEN e.timeRange.relative
  ELSE e[f]

\* the field is present (for the time range: its relative label is)
Present(e, f) ==
  IF f = "timeRange" THEN "timeRange" \in DOMAIN e /\ "relative" \in DOMAIN e.timeRange
  ELSE f \in DOMAIN e

\* the field is present and holds something: a crime type, a character
NonEmpty(e, f) ==
  Present(e, f) /\ (IF f = "timeRange" THEN e.timeRange.relative ELSE e[f]) # <<>>

PresentFields(e) == SelectSeq(SummaryFields, LAMBDA f : Present(e, f))

NonEmptyFields(e) == SelectSeq(SummaryFields, LAMBDA f : NonEmpty(e, f))

\* the summary that shows the fields shown: their parts in the fixed order
\* with " | " in between, "General search" when there is none
SummaryOf(e, shown) ==
  LET parts == [k \in 1..Len(shown) |-> SummaryLabel[shown[k]] \o SummaryValue(e, shown[k])]
  IN  IF shown = <<>> THEN <<"G","e","n","e","r","a","l"," ","s","e","a","r","c","h">> ELSE join(parts, <<" ","|"," ">>)

Summarized == summary # NoSummary

C12_Stateless ==
  /\ CRIME_TYPES = CrimeTypeVocabulary
  /\ TEMPORAL_KEYWORDS = TemporalKeywordTable
  /\ \A c \in DOMAIN calls :
       calls[c].pc = "returned" =>
         calls[c].result = parseVoiceCommand(calls[c].text, calls[c].clock)

\* a call has returned crime types and a time range while the call of
\* another caller, on another text, is between two of its statements
C12_Witness ==
  \E c, d \in DOMAIN calls :
    /\ calls[c].pc = "returned"
    /\ {"crimeType", "timeRange"} \subseteq DOMAIN calls[c].result.entities
    /\ calls[d].pc = "confidence"
    /\ calls[d].text # calls[c].text
    /\ calls[d].clock[1] < calls[c].clock[1]

\* the match-case function has responded
Responded == match.pc = "responded"

\* the request carries a body that was read, with case details that the
\* input validation does not accept
InvalidDetails ==
  /\ match.method # "OPTIONS"
  /\ match.body.json
  /\ match.body.value # Null
  /\ ValidationError(IF match.body.value.type = "object"
                       THEN match.body.value.caseDetails ELSE Missing) # ""

\* the response to every failure: 400 for invalid case details, before the
\* database or the AI gateway is contacted; 429 and 402 for these answers of
\* the AI gateway; 500 for every other failure
FailuresByClass ==
  /\ match.response.status \in {200, 400, 402, 429, 500}
  /\ InvalidDetails <=> match.response.status = 400
  /\ match.response.status = 400 => match.contacted = {}
  /\ match.aiStatus = 429 <=> match.response.status = 429
  /\ match.aiStatus = 402 <=> match.response.status = 402
  /\ match.response.status \in {429, 402} => match.contacted = {"database", "AI gateway"}
  /\ match.response.status # 200 => "error" \in DOMAIN match.response

\* C13 as stated: the match-case handler answers invalid case details with
\* 400 before the database or the AI gateway is contacted, an AI gateway
\* answer of 429 with 429, one of 402 with 402, every other failure with
\* 500, and returns status 200 only together with a parsed analysis.
C13_StatusByFailure ==
  Responded =>
    /\ FailuresByClass
    /\ match.response.status = 200 => "analysis" \in DOMAIN match.response

\* C13 as amended: to a request that is not a CORS preflight the match-case
\* handler answers as stated, status 200 only together with a parsed analysis
\* and after the AI gateway answered 2xx; an OPTIONS request is answered
\* with status 200 and no body, nothing being read or contacted.
C13_StatusByFailureButPreflight ==
  Responded =>
    /\ FailuresByClass
    /\ match.method # "OPTIONS" =>
         (match.response.status = 200 =>
            /\ "analysis" \in DOMAIN match.response
            /\ match.aiStatus \in 200..299)
    /\ match.method = "OPTIONS" =>
         /\ match.response = [status |-> 200, body |-> "null"]
         /\ match.contacted = {}

\* the AI gateway has answered 429 to valid case details, and the handler 429
C13_Witness ==
  /\ Responded
  /\ match.aiStatus = 429
  /\ match.response.status = 429
  /\ ~InvalidDetails
  /\ match.contacted = {"database", "AI gateway"}

\* a step of handleSubmit that ends it in failure: an error is shown
SubmitFails ==
  /\ entry'.pc = "idle"
  /\ entry'.toast.title \in {"Validation error", "Failed to create case"}
  /\ entry'.toast # entry.toast \/ entry'.pc # entry.pc

\* a step that attempts an insert attempts it after validation, of the
\* validated data
InsertsValidated ==
  entry'.inserted # entry.inserted =>
    /\ entry.pc = "authenticating"
    /\ SchemaIssue(entry.validatedData) = ""
    /\ entry'.inserted = entry.inserted \cup {entry.validatedData}

\* a step that ends handleSubmit in failure leaves the form data, shows an
\* error and leaves the loading flag false
FailureKeepsForm ==
  SubmitFails =>
    /\ entry'.formData = entry.formData
    /\ entry'.toast.variant = "destructive"
    /\ ~entry'.loading

\* C14: in manual case entry the insert into the cases table is attempted
\* only with data that validation against the case schema accepted before,
\* in the same submission; when validation, authentication or the insert
\* fails, the form data is as it was, an error is shown and the loading flag
\* is false; the loading flag is false whenever no submission is under way.
C14_ValidatedBeforeInsert ==
  /\ [](entry.pc = "idle" => ~entry.loading)
  /\ [](entry.pc # "none" => \A row \in entry.inserted : SchemaIssue(row) = "")
  /\ [][InsertsValidated /\ FailureKeepsForm]_vars

\* the insert of valid data has failed: the error is shown, the data are
\* still in the form and the loading flag is false
C14_Witness ==
  /\ entry.pc = "idle"
  /\ entry.inserted # {}
  /\ entry.toast.title = "Failed to create case"
  /\ entry.toast.description = "Unknown error occurred"
  /\ entry.formData \in entry.inserted
  /\ ~entry.loading

\* the normalized text contains one of the words
Mentions(words) == \E w \in words : includes(Normalized, w)

SearchVerbs == {<<"s","h","o","w">>, <<"f","i","n","d">>, <<"s","e","a","r","c","h">>, <<"g","e","t">>}

FilterWords == {<<"f","i","l","t","e","r">>, <<"n","a","r","r","o","w">>, <<"m","a","t","c","h","i","n","g">>}

LocationCues == {<<"i","n"," ">>, <<"n","e","a","r"," ">>, <<"a","t"," ">>, <<"a","r","o","u","n","d"," ">>, <<"s","e","c","t","o","r">>, <<"d","i","s","t","r","i","c","t">>}

SuspectWords == {<<"s","u","s","p","e","c","t">>, <<"p","e","r","p","e","t","r","a","t","o","r">>}

CrimePhrases == {CrimeTypeVocabulary[k] : k \in 1..Len(CrimeTypeVocabulary)}

TimePhrases == {TemporalKeywordTable[k].keyword : k \in 1..Len(TemporalKeywordTable)}

\* C15: the intent is decided by a first-match-wins cascade on substrings of
\* the normalized text: with a search verb, crime_type_query if a crime-type
\* phrase is present, else location_query if a location cue is, else
\* temporal_query if a temporal keyword is, else search_cases; without one,
\* filter_cases on filter/narrow/matching, else temporal_query, else
\* location_query, else suspect_query on suspect/perpetrator, else unknown.
\* So crime_type_query is returned only with a search verb, and
\* location_query for a text with a temporal keyword only with a search verb.
C15_Cascade ==
  Called =>
    LET verb == Mentions(SearchVerbs)
        crime == Mentions(CrimePhrases)
        place == Mentions(LocationCues)
        time == Mentions(TimePhrases)
        filter == Mentions(FilterWords)
        suspect == Mentions(SuspectWords)
        intent == parsed.intent
    IN  /\ verb /\ crime => intent = "crime_type_query"
        /\ verb /\ ~crime /\ place => intent = "location_query"
        /\ verb /\ ~crime /\ ~place /\ time => intent = "temporal_query"
        /\ verb /\ ~crime /\ ~place /\ ~time => intent = "search_cases"
        /\ ~verb /\ filter => intent = "filter_cases"
        /\ ~verb /\ ~filter /\ time => intent = "temporal_query"
        /\ ~verb /\ ~filter /\ ~time /\ place => intent = "location_query"
        /\ ~verb /\ ~filter /\ ~time /\ ~place /\ suspect => intent = "suspect_query"
        /\ ~verb /\ ~filter /\ ~time /\ ~place /\ ~suspect => intent = "unknown"
        /\ intent = "crime_type_query" => verb
        /\ intent = "location_query" /\ time => verb

\* a text with a search verb, a location cue and a temporal keyword has been
\* given location_query
C15_Witness ==
  /\ Called
  /\ Mentions(SearchVerbs) /\ Mentions(LocationCues) /\ Mentions(TimePhrases)
  /\ parsed.intent = "location_query"

\* the place of a phrase in the vocabulary (0 when it is none of it)
VocabularyIndex(phrase) ==
  IF phrase \in CrimePhrases
    THEN CHOOSE k \in 1..Len(CrimeTypeVocabulary) : CrimeTypeVocabulary[k] = phrase
    ELSE 0

\* the first place at which w occurs in s
FirstAt(s, w) == Min({i \in 1..Len(s) : StartsAt(s, i, w)})

\* C16: entities.crimeType is exactly the list of those of the 13 vocabulary
\* phrases that occur as substrings of the normalized text, in vocabulary
\* order and without subsumption (the field is absent when none occurs): a
\* text containing "armed robbery" yields "armed robbery" first and
\* "robbery" second.
C16_VocabularyOrder ==
  Called =>
    LET here == {p \in CrimePhrases : includes(Normalized, p)}
        e == parsed.entities
    IN  /\ Len(CrimeTypeVocabulary) = 13
        /\ "crimeType" \in DOMAIN e <=> here # {}
        /\ "crimeType" \in DOMAIN e =>
             /\ {e.crimeType[k] : k \in 1..Len(e.crimeType)} = here
             /\ \A j, k \in 1..Len(e.crimeType) :
                  j < k => VocabularyIndex(e.crimeType[j]) < VocabularyIndex(e.crimeType[k])
        /\ includes(Normalized, <<"a","r","m","e","d"," ","r","o","b","b","e","r","y">>) =>
             /\ Len(e.crimeType) >= 2
             /\ e.crimeType[1] = <<"a","r","m","e","d"," ","r","o","b","b","e","r","y">>
             /\ e.crimeType[2] = <<"r","o","b","b","e","r","y">>

\* crime types have been returned in an order that is not the order of their
\* first occurrences in the text, "armed robbery" and "robbery" among them
C16_Witness ==
  /\ Called
  /\ "crimeType" \in DOMAIN parsed.entities
  /\ Len(parsed.entities.crimeType) >= 3
  /\ parsed.entities.crimeType[1] = <<"a","r","m","e","d"," ","r","o","b","b","e","r","y">>
  /\ \E k \in 2..Len(parsed.entities.crimeType) :
       FirstAt(Normalized, parsed.entities.crimeType[k]) < FirstAt(Normalized, <<"a","r","m","e","d"," ","r","o","b","b","e","r","y">>)
       /\ parsed.entities.crimeType[k] # <<"r","o","b","b","e","r","y">>

\* the three location patterns on the normalized text: of each, the leftmost
\* match
LocationMatches ==
  LET s == Normalized
  IN  << Leftmost([i \in 1..Len(s) |-> PrepositionAt(s, i)]),
         Leftmost([i \in 1..Len(s) |-> SectorAt(s, i)]),
         Leftmost([i \in 1..Len(s) |-> DistrictAt(s, i)]) >>

\* w stands in s at i, behind what and one or more whitespace characters
Follows(s, i, what, w) ==
  \E h \in 1..(i - 1) : \E g \in 1..h :
    /\ SubSeq(s, g, h) \in what
    /\ \A x \in (h + 1)..(i - 1) : s[x] \in Space
    /\ h + 1 <= i - 1
    /\ StartsAt(s, i, w)

\* C17: the location comes from the first, in the order (a) preposition,
\* (b) sector, (c) district, of the three patterns that matches anywhere in
\* the text, a later pattern counting only when every earlier one matches
\* nowhere, wherever the matches lie; the field is absent when none matches.
\* From (a) a location that is not empty is a word of letters and digits
\* behind in/near/at/around and whitespace; from (b) it is the digits behind
\* "sector" and whitespace. A text with a preposition directly before
\* "sector 9" gets its location from (a), not the digits from (b): the word
\* "sector" when no match of (a) starts earlier in the text.
C17_PatternOrder ==
  Called =>
    LET s == Normalized
        e == parsed.entities
        m == LocationMatches
        K == {k \in 1..3 : m[k].found}
    IN  /\ "location" \in DOMAIN e <=> K # {}
        /\ K # {} => e.location = trim(m[Min(K)].group)
        /\ (K # {} /\ Min(K) = 1 /\ e.location # <<>>) =>
             /\ \A x \in 1..Len(e.location) : e.location[x] \in Lower \cup Digit
             /\ \E i \in 1..Len(s) :
                  /\ Follows(s, i, {<<"i","n">>, <<"n","e","a","r">>, <<"a","t">>, <<"a","r","o","u","n","d">>}, e.location)
                  /\ i + Len(e.location) > Len(s) \/ s[i + Len(e.location)] \in Space
        /\ (K # {} /\ Min(K) = 2) =>
             /\ \A x \in 1..Len(e.location) : e.location[x] \in Digit
             /\ \E i \in 1..Len(s) : Follows(s, i, {<<"s","e","c","t","o","r">>}, e.location)
        /\ \A p \in {<<"i","n">>, <<"n","e","a","r">>, <<"a","t">>, <<"a","r","o","u","n","d">>} :
             includes(s, p \o <<" ","s","e","c","t","o","r"," ","9">>) =>
               /\ 1 \in K
               /\ (\A j \in 1..(FirstAt(s, p \o <<" ","s","e","c","t","o","r"," ","9">>) - 1) : ~PrepositionAt(s, j).found)
                    => e.location = <<"s","e","c","t","o","r">>

\* the location is the word behind a preposition although "sector" and
\* digits stand in the text before that preposition
C17_Witness ==
  /\ Called
  /\ LocationMatches[1].found /\ LocationMatches[2].found
  /\ "location" \in DOMAIN parsed.entities
  /\ parsed.entities.location = <<"d","o","w","n","t","o","w","n">>
  /\ includes(Normalized, <<"s","e","c","t","o","r"," ","1","2">>) /\ includes(Normalized, <<"i","n"," ","d","o","w","n","t","o","w","n">>)
  /\ FirstAt(Normalized, <<"s","e","c","t","o","r"," ","1","2">>) < FirstAt(Normalized, <<"i","n"," ","d","o","w","n","t","o","w","n">>)

\* the relative phrases in the order of the table
RelativePhrases ==
  << <<"t","o","d","a","y">>, <<"y","e","s","t","e","r","d","a","y">>, <<"t","h","i","s"," ","w","e","e","k">>, <<"l","a","s","t"," ","w","e","e","k">>, <<"t","h","i","s"," ","m","o","n","t","h">>, <<"l","a","s","t"," ","m","o","n","t","h">>, <<"t","h","i","s"," ","y","e","a","r">> >>

\* the phrases of the table that occur in the normalized text, by position
\* in the table
RelativeHere == {k \in 1..Len(RelativePhrases) : includes(Normalized, RelativePhrases[k])}

\* C18: the table lists today, yesterday, this week, last week, this month,
\* last month, this year in this order, and when one or more of them occur
\* in the text the time range carries the first of them in table order as
\* its relative label and counts its start back by that entry's days,
\* wherever in the text the phrases stand.
C18_TableOrder ==
  Called =>
    /\ [k \in 1..Len(TemporalKeywordTable) |-> TemporalKeywordTable[k].keyword] = RelativePhrases
    /\ RelativeHere # {} =>
         /\ "timeRange" \in DOMAIN parsed.entities
         /\ "relative" \in DOMAIN parsed.entities.timeRange
         /\ parsed.entities.timeRange.relative = RelativePhrases[Min(RelativeHere)]
         /\ parsedAt[2] - parsed.entities.timeRange.start
              = TemporalKeywordTable[Min(RelativeHere)].days * DayLength

\* two phrases of the table occur and the one taken stands behind the other
\* in the text
C18_Witness ==
  /\ Called
  /\ Cardinality(RelativeHere) >= 2
  /\ "timeRange" \in DOMAIN parsed.entities
  /\ \E k \in RelativeHere :
       /\ parsed.entities.timeRange.relative = RelativePhrases[Min(RelativeHere)]
       /\ FirstAt(Normalized, RelativePhrases[k])
            < FirstAt(Normalized, RelativePhrases[Min(RelativeHere)])

\* the table's days and offset (0 when the entry has none) of a relative
\* phrase
DaysOf(relative) ==
  LET value == TemporalKeywordTable[CHOOSE k \in 1..Len(TemporalKeywordTable) :
                                      TemporalKeywordTable[k].keyword = relative]
  IN  [d |-> value.days, o |-> IF "offset" \in DOMAIN value THEN value.offset ELSE 0]

\* C19: for a matched relative phrase with table values days d and offset o
\* there is one instant now, read from the clock during the call, with
\* start = now - d days and end = now - o days; so start is never after
\* end, the window is d - o days long (last week: 7 days ending 7 days ago;
\* last month: 30 days ending 30 days ago; this week: 7 days ending now) and
\* "today" has start = end = now.
C19_Window ==
  (Called /\ HasRelative(parsed.entities)) =>
    LET range == parsed.entities.timeRange
        v == DaysOf(range.relative)
    IN  /\ \E instant \in {parsedAt[1], parsedAt[2]} :
             /\ range.start = instant - v.d * DayLength
             /\ range.end = instant - v.o * DayLength
        /\ range.start <= range.end
        /\ range.end - range.start = (v.d - v.o) * DayLength
        /\ DaysOf(<<"l","a","s","t"," ","w","e","e","k">>) = [d |-> 14, o |-> 7]
        /\ DaysOf(<<"l","a","s","t"," ","m","o","n","t","h">>) = [d |-> 60, o |-> 30]
        /\ DaysOf(<<"t","h","i","s"," ","w","e","e","k">>) = [d |-> 7, o |-> 0]
        /\ range.relative = <<"t","o","d","a","y">> => range.start = range.end

\* the places <<i, a, b>> of the normalized text where a digits, a slash, b
\* digits, a slash and four digits stand, a and b being 1 or 2
DateShapes ==
  LET s == Normalized
      Digits(p, n) == p + n - 1 <= Len(s) /\ \A x \in p..(p + n - 1) : s[x] \in Digit
  IN  {t \in (1..Len(s)) \X (1..2) \X (1..2) :
         /\ Digits(t[1], t[2])
         /\ StartsAt(s, t[1] + t[2], <<"/">>)
         /\ Digits(t[1] + t[2] + 1, t[3])
         /\ StartsAt(s, t[1] + t[2] + 1 + t[3], <<"/">>)
         /\ Digits(t[1] + t[2] + t[3] + 2, 4)}

\* the first date-shaped literal of the normalized text, taken as long as it
\* can be
FirstDate ==
  LET s == Normalized
      i == Min({t[1] : t \in DateShapes})
      a == Max({t[2] : t \in {u \in DateShapes : u[1] = i}})
      b == Max({t[3] : t \in {u \in DateShapes : u[1] = i /\ u[2] = a}})
  IN  SubSeq(s, i, i + a + b + 5)

\* C20: the absolute date is used only when none of the relative phrases
\* occurs in the text: then, when the text holds a literal of the shape
\* MM/DD/YYYY, timeRange has start = end = the date parsed from the first
\* such literal and no relative field; when there is neither a phrase nor a
\* literal the timeRange field is absent. With a phrase in the text the
\* result carries the relative label and instants counted back from the
\* clock, never the absolute date, also when the text holds both.
C20_AbsoluteOnlyWithoutRelative ==
  Called =>
    LET e == parsed.entities
    IN  /\ "timeRange" \in DOMAIN e <=> (RelativeHere # {} \/ DateShapes # {})
        /\ RelativeHere # {} =>
             /\ DOMAIN e.timeRange = {"start", "end", "relative"}
             /\ e.timeRange.start \in Int /\ e.timeRange.end \in Int
        /\ (RelativeHere = {} /\ DateShapes # {}) =>
             /\ DOMAIN e.timeRange = {"start", "end"}
             /\ e.timeRange.start = newDate(FirstDate)
             /\ e.timeRange.end = e.timeRange.start

\* the text holds a relative phrase and a date literal, and the result
\* carries the relative label
C20_Witness ==
  /\ Called
  /\ RelativeHere # {}
  /\ DateShapes # {}
  /\ "timeRange" \in DOMAIN parsed.entities
  /\ "relative" \in DOMAIN parsed.entities.timeRange


\* the number of whitespace-separated tokens of s: the places where a run of
\* characters other than whitespace begins
TokenCount(s) ==
  Cardinality({i \in 1..Len(s) : s[i] \notin Space /\ (i = 1 \/ s[i - 1] \in Space)})

\* C21: the confidence, in tenths, equals min(10, a + b + c): a is 3 when the
\* intent is not unknown and 0 otherwise, b is min(4, 2 * the number of
\* entity fields present), a field counting 1 whatever it holds, and c is 2
\* when the normalized text has 4 or more tokens plus 1 more when it has 8 or
\* more; nothing is subtracted.
C21_Score ==
  Called =>
    LET a == IF parsed.intent # "unknown" THEN 3 ELSE 0
        n == Cardinality(DOMAIN parsed.entities \cap EntityKeys)
        b == Min({4, 2 * n})
        c == (IF TokenCount(Normalized) >= 4 THEN 2 ELSE 0)
             + (IF TokenCount(Normalized) >= 8 THEN 1 ELSE 0)
    IN  /\ DOMAIN parsed.entities \subseteq EntityKeys
        /\ parsed.confidence = Min({10, a + b + c})
        /\ parsed.confidence >= a /\ parsed.confidence >= b /\ parsed.confidence >= c

\* a call with three or more fields, one of them an empty string, and eight
\* or more tokens has returned 1.0
C21_Witness ==
  /\ Called
  /\ Cardinality(DOMAIN parsed.entities) >= 3
  /\ \E f \in DOMAIN parsed.entities : parsed.entities[f] = <<>>
  /\ TokenCount(Normalized) >= 8
  /\ parsed.confidence = 10


\* the templates in the order of their rules
TemplateOrder ==
  <<"rephrase", "specify_details", "multiple_crime_types", "time_period", "location", "fallback">>

\* rule r holds of an intent and entities; a location that is the empty
\* string is no location; the last rule always holds
RuleHolds(r, intent, e) ==
  CASE r = 1 -> intent = "unknown"
    [] r = 2 -> /\ "crimeType" \notin DOMAIN e
                /\ ("location" \notin DOMAIN e \/ e.location = <<>>)
                /\ "timeRange" \notin DOMAIN e
    [] r = 3 -> "crimeType" \in DOMAIN e /\ Len(e.crimeType) > 1
    [] r = 4 -> "timeRange" \notin DOMAIN e
    [] r = 5 -> "location" \notin DOMAIN e \/ e.location = <<>>
    [] r = 6 -> TRUE

RulesHolding(intent, e) == {r \in 1..6 : RuleHolds(r, intent, e)}

\* C22: the clarifier runs only when the confidence is below 0.7 (there is
\* no question otherwise) and returns the template of the first rule that
\* holds, in the order: intent unknown - rephrase; no crime type, no location
\* and no time range - specify details; more than one crime type - the
\* which-one question with the crime types in collected order joined by
\* ", "; no time range - time period; no location - location; otherwise the
\* fallback. A later rule is never chosen when an earlier one holds.
C22_FirstRule ==
  clarifier.pc = "returned" =>
    LET e == clarifier.entities
        q == clarifier.clarificationQuestion
        rule == Min(RulesHolding(clarifier.intent, e))
    IN  /\ clarifier.needsClarification = (clarifier.confidence < 7)
        /\ ~clarifier.needsClarification => q = Undefined
        /\ clarifier.needsClarification =>
             /\ q.template = TemplateOrder[rule]
             /\ \A earlier \in 1..6 :
                  (earlier \in RulesHolding(clarifier.intent, e) /\ q.template = TemplateOrder[earlier])
                    => earlier = rule
             /\ rule = 3 =>
                  /\ Len(e.crimeType) = 2 => q.detail = e.crimeType[1] \o <<","," ">> \o e.crimeType[2]
                  /\ q.detail = join(e.crimeType, <<","," ">>)
             /\ rule # 3 => q.detail = <<>>

\* the clarifier has returned the question for the location: the intent is
\* known, there is one crime type and a time range, and no location
C22_Witness ==
  /\ clarifier.pc = "returned"
  /\ clarifier.needsClarification
  /\ clarifier.clarificationQuestion.template = "location"
  /\ RulesHolding(clarifier.intent, clarifier.entities) = {5, 6}


\* the places of s where a token begins
TokenStarts(s) == {i \in 1..Len(s) : s[i] \notin Space /\ (i = 1 \/ s[i - 1] \in Space)}

\* the token of s that begins at i, without its characters other than a-z and
\* 0-9
StrippedAt(s, i) ==
  LET h == Min({e \in i..Len(s) : e = Len(s) \/ s[e + 1] \in Space})
  IN  SelectSeq(SubSeq(s, i, h), LAMBDA c : c \in Lower \cup Digit)

\* the tokens of s that are kept: where they begin
KeptStarts(s) ==
  {i \in TokenStarts(s) : Len(StrippedAt(s, i)) > 2 /\ StrippedAt(s, i) \notin stopWords}

\* C23: entities.keywords holds the tokens of the normalized text, split on
\* whitespace and stripped of every character other than a-z and 0-9, that
\* are longer than 2 characters and not stop words, each once, in the order
\* of their first occurrences (the field is absent when there is none): no
\* stop word, no token of 2 characters or less and no repeated token is in
\* it.
C23_Keywords ==
  Called =>
    LET s == Normalized
        e == parsed.entities
        k == IF "keywords" \in DOMAIN e THEN e.keywords ELSE <<>>
        FirstOf(w) == Min({i \in KeptStarts(s) : StrippedAt(s, i) = w})
    IN  /\ "keywords" \in DOMAIN e <=> KeptStarts(s) # {}
        /\ {k[x] : x \in 1..Len(k)} = {StrippedAt(s, i) : i \in KeptStarts(s)}
        /\ \A x \in 1..Len(k) :
             /\ Len(k[x]) > 2
             /\ k[x] \notin stopWords
             /\ \A c \in 1..Len(k[x]) : k[x][c] \in Lower \cup Digit
        /\ \A x, y \in 1..Len(k) : x < y => k[x] # k[y] /\ FirstOf(k[x]) < FirstOf(k[y])

\* the text holds a token twice, a token that is a stop word once it is
\* stripped and a token of 2 characters, and keywords have been returned
C23_Witness ==
  /\ Called
  /\ "keywords" \in DOMAIN parsed.entities
  /\ \E i, j \in KeptStarts(Normalized) :
       i # j /\ StrippedAt(Normalized, i) = StrippedAt(Normalized, j)
  /\ \E i \in TokenStarts(Normalized) :
       /\ StrippedAt(Normalized, i) \in stopWords
       /\ i + Len(StrippedAt(Normalized, i)) <= Len(Normalized)
       /\ Normalized[i + Len(StrippedAt(Normalized, i))] \notin Space
  /\ \E i \in TokenStarts(Normalized) : Len(StrippedAt(Normalized, i)) = 2


\* C24: whenever parseVoiceCommand returns the intent unknown it also returns
\* needsClarification true, with the question to rephrase: a command whose
\* intent could not be classified is never passed on as a search.
C24_UnknownAsks ==
  (Called /\ parsed.intent = "unknown") =>
    /\ parsed.needsClarification
    /\ parsed.clarificationQuestion = Question("rephrase", <<>>)


\* C25: over all inputs the clarificationQuestion of parseVoiceCommand, when
\* there is one, is the question to rephrase, to specify details or for the
\* time period, never the one for several crime types, for the location or
\* the fallback: a result with a known intent and a crime type or a time
\* range has a confidence of 0.7 or more.
C25_ThreeTemplates ==
  Called =>
    /\ parsed.clarificationQuestion.template
         \in {"undefined", "rephrase", "specify_details", "time_period"}
    /\ (/\ parsed.intent # "unknown"
        /\ {"crimeType", "timeRange"} \cap DOMAIN parsed.entities # {})
         => parsed.confidence >= 7 /\ parsed.clarificationQuestion = Undefined

\* the text names two crime types and no location, and the call asks to
\* rephrase
C25_Witness ==
  /\ Called
  /\ parsed.needsClarification
  /\ "crimeType" \in DOMAIN parsed.entities
  /\ Len(parsed.entities.crimeType) > 1
  /\ "location" \notin DOMAIN parsed.entities
  /\ parsed.clarificationQuestion.template = "rephrase"


\* C26: for every input, entities that hold crimeType, timeRange, suspect or
\* caseId also hold keywords: the text that matched leaves a token of more
\* than 2 characters that is no stop word. Of the fields other than keywords
\* only location is ever present alone.
C26_KeywordsAccompany ==
  Called =>
    LET e == parsed.entities
    IN  /\ DOMAIN e \cap {"crimeType", "timeRange", "suspect", "caseId"} # {} =>
             /\ "keywords" \in DOMAIN e
             /\ KeptStarts(Normalized) # {}
        /\ Cardinality(DOMAIN e) = 1 => DOMAIN e \subseteq {"location", "keywords"}

\* a call has returned a suspect that is the empty string and a case id,
\* with keywords; a location is not among the fields
C26_Witness ==
  /\ Called
  /\ DOMAIN parsed.entities = {"suspect", "caseId", "keywords"}
  /\ parsed.entities.suspect = <<>>


\* C27: for every input whose result has a timeRange with a relative label
\* the intent is crime_type_query, location_query, temporal_query or
\* filter_cases, never unknown, search_cases or suspect_query: the
\* classifier and the extractor of the time range test the same table.
C27_RelativeHasIntent ==
  (Called /\ "timeRange" \in DOMAIN parsed.entities
          /\ "relative" \in DOMAIN parsed.entities.timeRange) =>
    /\ parsed.intent \in {"crime_type_query", "location_query", "temporal_query", "filter_cases"}
    /\ containsTimeReference(Normalized)

\* the text has a relative phrase and names a suspect, without a search verb
\* and without a filter word: the intent is temporal_query
C27_Witness ==
  /\ Called
  /\ "timeRange" \in DOMAIN parsed.entities
  /\ "relative" \in DOMAIN parsed.entities.timeRange
  /\ parsed.entities.timeRange.relative = <<"l","a","s","t"," ","w","e","e","k">>
  /\ "suspect" \in DOMAIN parsed.entities
  /\ parsed.intent = "temporal_query"


\* the fields of a result other than rawText
Derived(cmd) ==
  [intent |-> cmd.intent,
   entities |-> cmd.entities,
   confidence |-> cmd.confidence,
   needsClarification |-> cmd.needsClarification,
   clarificationQuestion |-> cmd.clarificationQuestion]

\* two calls have returned, on inputs that are equal once in lower case and
\* trimmed
SameNormalized ==
  /\ first # NotCalled
  /\ Called
  /\ trim(toLowerCase(parsed.rawText)) = trim(toLowerCase(first.rawText))

\* C28: the result depends on the lowercased, trimmed text only: two calls
\* on inputs that are equal after lowercasing and trimming return the same
\* intent, entities, confidence, needsClarification and
\* clarificationQuestion; rawText is the input as given.
C28_TextOnly ==
  /\ first # NotCalled => first.rawText = text
  /\ Called => parsed.rawText \in Spellings(text)
  /\ SameNormalized => Derived(parsed) = Derived(first)

\* C28, with the clock: two calls on inputs that are equal after lowercasing
\* and trimming return the same intent, entity fields and values, confidence,
\* needsClarification and clarificationQuestion, where of a relative time
\* range the label and the distances of start and end from the clock
\* readings of the call are the same, not the instants; rawText is the input
\* as given.
C28_TextAndClock ==
  /\ first # NotCalled => first.rawText = text
  /\ Called => parsed.rawText \in Spellings(text)
  /\ SameNormalized =>
       /\ Outcome(parsed, parsedAt) = Outcome(first, firstAt)
       /\ ("timeRange" \in DOMAIN parsed.entities
           /\ "relative" \notin DOMAIN parsed.entities.timeRange)
            => Derived(parsed) = Derived(first)
       /\ parsedAt = firstAt => Derived(parsed) = Derived(first)

\* two calls at different times on two spellings of one text with a
\* relative phrase
C28_Witness ==
  /\ SameNormalized
  /\ parsed.rawText # first.rawText
  /\ parsedAt # firstAt
  /\ HasRelative(parsed.entities)


\* the last n entries of a list, the latest first
LatestFirst(list, n) ==
  [i \in 1..(IF Len(list) < n THEN Len(list) ELSE n) |-> list[Len(list) + 1 - i]]

\* C29: after any sequence of processed commands the command history holds
\* at most 5 entries, the most recent first: the texts of the latest 5
\* commands whose state updates are rendered, so that processing a command
\* puts its text in front and drops the oldest entry when there would be
\* more than 5; each processed command is parsed once and, when the prop
\* onCommandParsed is given, reported to it once.
C29_HistoryOfFive ==
  center.pc = "mounted" =>
    LET rendered == SubSeq(center.handled, 1, Len(center.handled) - Len(center.queue))
    IN  /\ Len(center.commandHistory) <= 5
        /\ center.commandHistory = LatestFirst(rendered, 5)
        /\ center.parses = Len(center.handled)
        /\ center.onCommandParsed =>
             /\ Len(center.reported) = Len(center.handled)
             /\ \A i \in 1..Len(center.handled) : center.reported[i].rawText = center.handled[i]
        /\ ~center.onCommandParsed => center.reported = <<>>

\* a sixth command has been processed and rendered: the first is no longer
\* in the history
C29_Witness ==
  /\ center.pc = "mounted"
  /\ center.onCommandParsed
  /\ Len(center.handled) = 6
  /\ center.queue = <<>>
  /\ Len(center.commandHistory) = 5
  /\ center.handled[1] # center.handled[2]
  /\ center.commandHistory[5] = center.handled[2]


\* C30: a ProtectedRoute with requireAdmin shows its children only when the
\* authentication has finished loading, the role check has completed, a user
\* is signed in and the role fetched for that user is 'admin'; whatever the
\* order of the changes of the loading flag and of the user and of the
\* results of getUserRole, a signed-out visitor is sent to /auth and a user
\* who is no admin to /dashboard, and neither is ever shown the children.
C30_AdminOnly ==
  (route.pc = "mounted" /\ route.requireAdmin) =>
    /\ route.shows = "children" =>
         /\ ~route.loading
         /\ ~route.checkingRole
         /\ route.user # SignedOut
         /\ RoleOf[route.user] = "admin"
         /\ route.role = "admin"
    /\ (route.user = SignedOut /\ route.shows # "LoadingSpinner") => route.shows = "/auth"
    /\ (route.user # SignedOut /\ RoleOf[route.user] # "admin" /\ route.shows # "LoadingSpinner")
         => route.shows = "/dashboard"

====
